---- MODULE Spec2Model ----
(***************************************************************************)
(* A model of Scripts/BackupOneDrive.py and Scripts/DeduplicateFiles.py:   *)
(* the OAuth token manager (_Token), the Backup command (token creation,   *)
(* profile check, remote listing, planning, download), RemoveDuplicates,   *)
(* DeduplicateFiles' EntryPoint and the procedures they call.              *)
(*                                                                         *)
(* Ten specifications share the variables below:                           *)
(*   SpecToken    one _Token object and a clock: GetAccessToken calls;     *)
(*   SpecListing  _GetFileInfos alone over a family of remote trees;       *)
(*   SpecBackup   one run of the Backup command, step by step;             *)
(*   SpecPlanner  _GetFilesToProcess, and the planning of the next run;    *)
(*   SpecExecutor the tasks handed to ExecuteTasks.TransformTasksEx;       *)
(*   SpecCommit   the download tasks of _ProcessFiles on a file system;    *)
(*   SpecDedup    RemoveDuplicates and DeduplicateFiles on a tree;         *)
(*   SpecCallback CallbackServer: its serving thread and its Wait call,    *)
(*                and SpecCallbackFair, in which the thread keeps running; *)
(*   SpecRace     GetAccessToken called by concurrent download workers.    *)
(* Each leaves the variables of the other parts as they start.             *)
(***************************************************************************)
EXTENDS Integers, Sequences, FiniteSets, TLC

\* Python's None, where the field otherwise holds a token or an instant
None == 0 - 1

Max(a, b) == IF a >= b THEN a ELSE b

RECURSIVE BitLen(_)
BitLen(n) == IF n = 0 THEN 0 ELSE 1 + BitLen(n \div 2)

-----------------------------------------------------------------------------
(* Bounds of the model                                                     *)

MaxTime == 8            \* the clock runs over 0..MaxTime seconds
MaxLatency == 1         \* a token request takes 0..MaxLatency seconds
MaxExpiresIn == 7       \* the server declares expires_in in 0..MaxExpiresIn
MaxCalls == 3           \* GetAccessToken calls in one behaviour
MaxSubfolders == 2      \* folders below the camera roll
MaxFiles == 2           \* files in the remote tree

\* token strings, told apart by a number
AccessTokens == {1, 2}
RefreshTokens == {1, 2}

\* how many entries the server puts in one page of a listing
PageSizes == {1, 2}

-----------------------------------------------------------------------------
(* State                                                                   *)

VARIABLES
    \* _Token (BackupOneDrive.py:479-487) and the world it reads
    now,             \* datetime.datetime.now(datetime.UTC), in seconds
    refresh_token,   \* self.refresh_token
    access_token,    \* self._access_token (None before the first refresh)
    access_expires,  \* self._access_expires (None before the first refresh)
    data_file,       \* the file "<user> - BackupOneDrive" (NoFile: absent)
    \* observation of the GetAccessToken calls made so far
    calls,           \* number of GetAccessToken calls
    requests,        \* number of refresh requests sent to TOKEN_URL
    sent,            \* refresh token carried by the last request
    acquired,        \* [at, expires_in, carried] of the last response
    returned,        \* [token, at] of the last call (NoReturn: it raised)
    \* the Backup command (BackupOneDrive.py:63-250)
    pc,              \* the statement Backup is at
    failure,         \* the exception that ended the run ("none": none)
    dm_result,       \* dm.result
    phases,          \* the phases that ran after the token was created
    \* _Token.Create (BackupOneDrive.py:409-468)
    force_oauth,     \* the --force-oauth flag
    file0,           \* data_file when the run started
    listener,        \* the CallbackServer: "none", "listening", "stopped"
    events,          \* the interactive steps taken so far, in order
    auth_token,      \* what local_server.Wait() returned
    exchanged,       \* what oauth.fetch_token did (NoExchange: not called)
    writes,          \* number of times the file was written
    created,         \* a _Token was returned
    \* _GetFileInfos (BackupOneDrive.py:524-579)
    remote,          \* the remote folder tree and its paging
    to_search,       \* the worklist
    files,           \* the files found so far
    file_infos,      \* Backup's file_infos, once _GetFileInfos returned
    listed,          \* _GetFileInfos returned
    list_requests,   \* number of listing requests sent
    last_page,       \* the last listing response
    \* _GetFilesToProcess and _ProcessFiles (BackupOneDrive.py:583-755)
    files_to_process,\* the planner's output
    plan_errors,     \* the items the planner reported as errors
    tasks,           \* state of each submitted download task
    local,           \* the destinations that exist on local storage
    local0,          \* `local` when the run started
    \* what the command was given and what the profile request answered
    profile,         \* [expected_email, response] of the profile check
    rules,           \* [pictures, videos]: the subdirectories configured
    \* ExecuteTasks.TransformTasksEx and the tasks handed to it
    workload,        \* [kind, ssd]: the caller and its --ssd flag
    contents,        \* per task: what the file or the response holds
    etasks,          \* per task: [state, weight, progress, result]
    finished,        \* the tasks that have finished, in finishing order
    all_results,     \* the list TransformTasksEx returned
    pairs,           \* zip(all_filenames, all_hashes), as the caller reads it
    \* _ProcessFiles.Prepare and Transform, step by step, on a file system
    disk,            \* [dirs, files]: the directories and files that exist
    fetch,           \* per task: [pc, raised, headers, asked, stale]
    mkdir_lock,      \* the task that holds mkdir_lock (0: nobody)
    attempt,         \* the runs of the command started so far
    \* RemoveDuplicates and DeduplicateFiles on a directory tree
    tree0,           \* the tree the command is given
    runs,            \* the dry run (TRUE) and the real run (FALSE) of it
    \* CallbackServer (Impl/CallbackServer.py:77-186)
    server,          \* the object, its serving thread and its Wait call
    \* GetAccessToken called by the download workers at the same time
    callers          \* per worker: [pc, saw, response, result, at]

tokenRest == <<now, access_token, access_expires, calls, requests, sent,
               acquired, returned>>

tokenVars == <<refresh_token, data_file, tokenRest>>

runVars == <<pc, failure, dm_result, phases>>

createVars == <<force_oauth, file0, listener, events, auth_token, exchanged,
                writes, created>>

listVars == <<remote, to_search, files, file_infos, listed, list_requests,
              last_page>>

planVars == <<files_to_process, plan_errors>>

fetchVars == <<tasks, local, local0>>

givenVars == <<profile, rules>>

execVars == <<workload, contents, etasks, finished, all_results, pairs>>

commitVars == <<disk, fetch, mkdir_lock, attempt>>

dedupVars == <<tree0, runs>>

lastVars == <<server, callers>>

laterVars == <<commitVars, dedupVars, lastVars>>

vars == <<tokenVars, runVars, createVars, listVars, planVars, fetchVars,
          givenVars, execVars, laterVars>>

-----------------------------------------------------------------------------
(* Values                                                                  *)

\* the persisted file: the token it holds, and whether white space follows it
NoFile == [token |-> None, newline |-> FALSE]

FileHolding(t) == [token |-> t, newline |-> FALSE]

\* The remote tree: folder 0 is the camera roll, folder i > 0 lies in
\* parent[i] < i; file f lies in folder loc[f], or nowhere (Absent); entry
\* `bad` (0: none) carries neither the folder nor the file marker; the
\* server cuts every listing into pages of `page` entries.
Subfolders == 1..MaxSubfolders
Folders == 0..MaxSubfolders
FileIds == 1..MaxFiles
Absent == None

RemoteTrees ==
    {t \in [parent : [Subfolders -> Folders],
            loc : [FileIds -> {Absent} \cup Folders],
            bad : 0..MaxFiles,
            page : PageSizes] :
        /\ \A i \in Subfolders : t.parent[i] < i
        /\ t.bad # 0 => t.loc[t.bad] # Absent}

EmptyRemote ==
    [parent |-> [i \in Subfolders |-> 0], loc |-> [f \in FileIds |-> Absent],
     bad |-> 0, page |-> 1]

\* a listing URL: the folder listed and the entries already served
NoLink == [folder |-> None, skip |-> None]

NoPage == [value |-> <<>>, next |-> NoLink]

\* oauth.fetch_token has not been called
NoExchange == [status |-> "none", token |-> None]

\* the parts of the state that a specification does not use stay idle
IdleCreate ==
    /\ force_oauth = FALSE
    /\ file0 = data_file
    /\ listener = "none"
    /\ events = <<>>
    /\ auth_token = None
    /\ exchanged = NoExchange
    /\ writes = 0
    /\ created = TRUE

IdleListing ==
    /\ remote = EmptyRemote
    /\ to_search = <<>>
    /\ files = <<>>
    /\ file_infos = <<>>
    /\ listed = FALSE
    /\ list_requests = 0
    /\ last_page = NoPage

IdlePlan ==
    /\ files_to_process = <<>>
    /\ plan_errors = {}

IdleFetch ==
    /\ tasks = <<>>
    /\ local = {}
    /\ local0 = {}

\* the profile request has not been answered; the profile holds the mail
\* only when the command compares it
NoProfile == [expected_email |-> "None", displayName |-> "None",
              mail |-> "None"]

NoRules == [pictures |-> FALSE, videos |-> FALSE]

IdleGiven ==
    /\ profile = NoProfile
    /\ rules = NoRules

NoWorkload == [kind |-> "none", ssd |-> FALSE]

IdleExec ==
    /\ workload = NoWorkload
    /\ contents = <<>>
    /\ etasks = <<>>
    /\ finished = <<>>
    /\ all_results = <<>>
    /\ pairs = {}

NoDisk == [dirs |-> {}, files |-> <<>>]

IdleCommit ==
    /\ disk = NoDisk
    /\ fetch = <<>>
    /\ mkdir_lock = 0
    /\ attempt = 0

NoTree == [files |-> <<>>, dirs |-> {}, listing |-> <<>>]

IdleDedup ==
    /\ tree0 = NoTree
    /\ runs = <<>>

\* Wait has returned nothing
NoValue == [shape |-> "nothing", value |-> None, dict |-> {}]

\* no CallbackServer has been constructed
NoServer == [arg |-> "none", callback_result_names |-> <<>>, results |-> {},
             quit_event |-> FALSE, thread |-> "none", served |-> <<>>,
             content |-> "none", wait |-> "none", returned |-> NoValue]

IdleLast ==
    /\ server = NoServer
    /\ callers = <<>>

IdleLater ==
    /\ IdleCommit
    /\ IdleDedup
    /\ IdleLast

IdleRun ==
    /\ failure = "none"
    /\ dm_result = 0
    /\ phases = {}

IdleBackup ==
    /\ pc = "Idle"
    /\ IdleRun
    /\ IdleCreate
    /\ IdleListing
    /\ IdlePlan
    /\ IdleFetch

IdleToken ==
    /\ now = 0
    /\ access_token = None
    /\ access_expires = None
    /\ calls = 0
    /\ requests = 0
    /\ sent = None
    /\ acquired = [at |-> None, expires_in |-> None, carried |-> None]
    /\ returned = [token |-> None, at |-> None]

-----------------------------------------------------------------------------
(* int(float(expires_in) * 0.90), BackupOneDrive.py:509, as IEEE-754       *)
(* binary64 computes it: the literal 0.90 is the double                    *)
(* 8106479329266893 / 2^53; the exact product is rounded to 53 significant *)
(* bits (ties to even) and int() truncates.  The 53-bit significand is     *)
(* held in three 18-bit limbs so that every intermediate fits 32 bits.     *)

Limb == 2^18

Ninety == <<117964, 209715, 52429>>     \* 0.90: high, middle, low limb

FloatMulNinety(e) ==
    LET l0 == e * Ninety[3]
        p0 == l0 % Limb
        l1 == e * Ninety[2] + (l0 \div Limb)
        p1 == l1 % Limb
        p2 == e * Ninety[1] + (l1 \div Limb)
        \* bits to drop so that 53 significant bits remain
        s == BitLen(p2) + 36 - 53
        r == p0 % (2^s)
        odd == (p0 \div (2^s)) % 2 = 1
        up == s > 0 /\ (2 * r > 2^s \/ (2 * r = 2^s /\ odd))
        q0 == p0 - r + (IF up THEN 2^s ELSE 0)
        q1 == p1 + (q0 \div Limb)
        q2 == p2 + (q1 \div Limb)
    IN  IF e = 0 THEN 0 ELSE q2 \div (2^17)

\* a refresh deadline that forgets the 5-second floor
ExpiresInNoFloor(e) == FloatMulNinety(e)

\* expires_in = max(5, int(float(expires_in) * 0.90))
ExpiresIn(e) == Max(5, FloatMulNinety(e))

-----------------------------------------------------------------------------
(* _Token.GetAccessToken                                                   *)

\* what the token endpoint may answer to a refresh request
Responses ==
    [access_token : AccessTokens, expires_in : 0..MaxExpiresIn]
    \cup
    [access_token : AccessTokens, expires_in : 0..MaxExpiresIn,
     refresh_token : RefreshTokens]

\* an expiry test that lets a token be used at its deadline
NeedsRefreshStrict ==
    IF access_expires = None THEN TRUE ELSE now > access_expires

\* self._access_expires is None or now >= self._access_expires
NeedsRefresh ==
    IF access_expires = None THEN TRUE ELSE now >= access_expires

\* a refresh that forgets the refresh token of the response
NextRefreshTokenKept(resp) == refresh_token

\* if "refresh_token" in response: self.refresh_token = response[...]
NextRefreshToken(resp) ==
    IF "refresh_token" \in DOMAIN resp THEN resp.refresh_token
                                       ELSE refresh_token

NoResponse == [at |-> None, expires_in |-> None, carried |-> None]

otherThanToken == <<runVars, createVars, listVars, planVars, fetchVars>>

NoReturn == [token |-> None, at |-> None]

Carried(resp) ==
    IF "refresh_token" \in DOMAIN resp THEN resp.refresh_token ELSE None

\* The call finds the token missing or expired, the request takes d seconds
\* and is answered by resp.
GetAccessToken_Refresh(d, resp) ==
    /\ calls < MaxCalls
    /\ NeedsRefresh
    /\ now + d <= MaxTime
    /\ calls' = calls + 1
    /\ requests' = requests + 1
    /\ sent' = refresh_token
    /\ refresh_token' = NextRefreshToken(resp)
    /\ now' = now + d
    /\ access_token' = resp.access_token
    /\ access_expires' = now' + ExpiresIn(resp.expires_in)
    /\ acquired' = [at |-> now', expires_in |-> resp.expires_in,
                    carried |-> Carried(resp)]
    /\ returned' = [token |-> access_token', at |-> now']
    /\ UNCHANGED <<data_file, otherThanToken>>
    /\ UNCHANGED <<givenVars, execVars, laterVars>>

\* The request is sent and self._oauth.refresh_token raises.
GetAccessToken_Raises(d) ==
    /\ calls < MaxCalls
    /\ NeedsRefresh
    /\ now + d <= MaxTime
    /\ calls' = calls + 1
    /\ requests' = requests + 1
    /\ sent' = refresh_token
    /\ now' = now + d
    /\ returned' = NoReturn
    /\ UNCHANGED <<refresh_token, access_token, access_expires, data_file,
                   acquired, otherThanToken>>
    /\ UNCHANGED <<givenVars, execVars, laterVars>>

\* The stored token is still good: it is returned as it is.
GetAccessToken_Cached ==
    /\ calls < MaxCalls
    /\ ~NeedsRefresh
    /\ calls' = calls + 1
    /\ returned' = [token |-> access_token, at |-> now]
    /\ UNCHANGED <<now, refresh_token, access_token, access_expires,
                   data_file, requests, sent, acquired, otherThanToken>>
    /\ UNCHANGED <<givenVars, execVars, laterVars>>

\* Time passes between two calls.
Tick ==
    /\ now < MaxTime
    /\ now' = now + 1
    /\ UNCHANGED <<refresh_token, access_token, access_expires, data_file,
                   calls, requests, sent, acquired, returned, otherThanToken>>
    /\ UNCHANGED <<givenVars, execVars, laterVars>>

\* _Token.__init__ after _Token.Create: the refresh token is the one the
\* file holds; no access token yet.
InitToken ==
    /\ refresh_token \in RefreshTokens
    /\ data_file = FileHolding(refresh_token)
    /\ IdleToken
    /\ IdleBackup
    /\ IdleGiven
    /\ IdleExec
    /\ IdleLater

NextToken ==
    \/ \E d \in 0..MaxLatency, resp \in Responses : GetAccessToken_Refresh(d, resp)
    \/ \E d \in 0..MaxLatency : GetAccessToken_Raises(d)
    \/ GetAccessToken_Cached
    \/ Tick

SpecToken == InitToken /\ [][NextToken]_vars

-----------------------------------------------------------------------------
(* Properties of the token manager, checked under SpecToken                *)

\* C1: whenever a refresh stored a token whose response declared
\* expires_in = E, the stored expiry instant is exactly
\* max(5, floor(0.9 * E)) seconds after the instant of acquisition.
C1_ExpiryIsFlooredNinetyPercent ==
    acquired.at # None =>
        access_expires = acquired.at + Max(5, (9 * acquired.expires_in) \div 10)

\* a refresh whose declared lifetime is long enough for the 90% rule to
\* decide the deadline, made after time has passed
C1_Witness ==
    /\ acquired.at > 0
    /\ acquired.expires_in = 7
    /\ access_expires = acquired.at + 6

\* C2: the first call and every call made when now >= the stored expiry
\* sends exactly one refresh request; every call made when now < the stored
\* expiry sends none and returns the token the previous call returned.
C2_RefreshExactlyWhenDue ==
    [][calls' = calls + 1 =>
        IF calls = 0 \/ access_expires = None \/ now >= access_expires
        THEN requests' = requests + 1
        ELSE /\ requests' = requests
             /\ returned.token # None
             /\ returned'.token = returned.token]_vars

\* two refreshes, the second made at the deadline of the first, and a call
\* served from the stored token
C2_Witness ==
    /\ calls = 3
    /\ requests = 2
    /\ returned.token # None
    /\ returned.at >= acquired.at
    /\ acquired.at >= 5

\* C3: a token returned by GetAccessToken was acquired no more than 90% of
\* its declared lifetime ago (the statement of the claim; it fails for the
\* lifetimes the 5-second floor lengthens).
C3_NeverReturnedPastNinetyPercent ==
    returned.token # None =>
        10 * (returned.at - acquired.at) <= 9 * acquired.expires_in

\* C6: a refresh sends the in-memory refresh token; a response carrying a
\* refresh token replaces the in-memory one, a response carrying none leaves
\* it as it was; the persisted file is not touched.
C6_RefreshTokenReplacedInMemoryOnly ==
    [][requests' = requests + 1 /\ returned'.token # None =>
        /\ sent' = refresh_token
        /\ data_file' = data_file
        /\ IF acquired'.carried # None
           THEN refresh_token' = acquired'.carried
           ELSE refresh_token' = refresh_token]_vars

\* a second refresh that sent the replaced token, which the file never held,
\* and whose response carried no refresh token
C6_Witness ==
    /\ requests = 2
    /\ returned.token # None
    /\ sent # data_file.token
    /\ acquired.carried = None
    /\ refresh_token = sent

-----------------------------------------------------------------------------
(* The Backup command: _Token.Create                                       *)

\* the run ends with an exception
Raise(f) ==
    /\ pc' = "Failed"
    /\ failure' = f

\* an existence test that reads --force-oauth the wrong way round
UsePersistedInverted == data_file # NoFile /\ force_oauth

\* data_filename.is_file() and not force_oauth
UsePersisted == data_file # NoFile /\ ~force_oauth

\* data_filename.read_text(encoding="utf-8").strip()
Strip(f) == f.token

\* BackupOneDrive.py:432-436 and, with a persisted token, :468
Create_Start ==
    /\ pc = "Create"
    /\ IF UsePersisted
       THEN /\ refresh_token' = Strip(data_file)
            /\ created' = TRUE
            /\ pc' = "GetToken"
       ELSE /\ pc' = "Listen"
            /\ UNCHANGED <<refresh_token, created>>
    /\ UNCHANGED <<data_file, tokenRest, failure, dm_result, phases,
                   force_oauth, file0, listener, events, auth_token,
                   exchanged, writes, listVars, planVars, fetchVars>>
    /\ UNCHANGED <<givenVars, execVars, laterVars>>

\* a CallbackServer that does not listen before the browser is opened
Create_ListenDeferred ==
    /\ pc = "Listen"
    /\ pc' = "Browser"
    /\ UNCHANGED <<tokenVars, failure, dm_result, phases, createVars,
                   listVars, planVars, fetchVars>>
    /\ UNCHANGED <<givenVars, execVars, laterVars>>

\* local_server = CallbackServer(...): HTTPServer binds the port and
\* listens, the serving thread is started (CallbackServer.py:145-163)
Create_Listen ==
    /\ pc = "Listen"
    /\ listener' = "listening"
    /\ events' = Append(events, "listening")
    /\ pc' = "Browser"
    /\ UNCHANGED <<tokenVars, failure, dm_result, phases, force_oauth, file0,
                   auth_token, exchanged, writes, created, listVars, planVars,
                   fetchVars>>
    /\ UNCHANGED <<givenVars, execVars, laterVars>>

\* the port cannot be bound or the certificate cannot be loaded
Create_ListenRaises ==
    /\ pc = "Listen"
    /\ Raise("listen")
    /\ UNCHANGED <<tokenVars, dm_result, phases, createVars, listVars,
                   planVars, fetchVars>>
    /\ UNCHANGED <<givenVars, execVars, laterVars>>

\* oauth.authorization_url(...); webbrowser.open_new_tab(auth_url)
Create_Browser ==
    /\ pc = "Browser"
    /\ events' = Append(events, "browser")
    /\ pc' = "Wait"
    /\ UNCHANGED <<tokenVars, failure, dm_result, phases, force_oauth, file0,
                   listener, auth_token, exchanged, writes, created, listVars,
                   planVars, fetchVars>>
    /\ UNCHANGED <<givenVars, execVars, laterVars>>

AuthCodes == {1}

\* auth_token = local_server.Wait(): a request carrying ?code=c arrived
Create_WaitCode(c) ==
    /\ pc = "Wait"
    /\ listener = "listening"
    /\ auth_token' = c
    /\ listener' = "stopped"
    /\ events' = Append(events, "code")
    /\ pc' = "Exchange"
    /\ UNCHANGED <<tokenVars, failure, dm_result, phases, force_oauth, file0,
                   exchanged, writes, created, listVars, planVars, fetchVars>>
    /\ UNCHANGED <<givenVars, execVars, laterVars>>

\* a request without the code parameter arrived: Wait returns None
Create_WaitNoCode ==
    /\ pc = "Wait"
    /\ listener = "listening"
    /\ auth_token' = None
    /\ listener' = "stopped"
    /\ pc' = "Exchange"
    /\ UNCHANGED <<tokenVars, failure, dm_result, phases, force_oauth, file0,
                   events, exchanged, writes, created, listVars, planVars,
                   fetchVars>>
    /\ UNCHANGED <<givenVars, execVars, laterVars>>

\* no request arrived in time: Wait raises Exception("timeout")
Create_WaitTimeout ==
    /\ pc = "Wait"
    /\ listener' = IF listener = "listening" THEN "stopped" ELSE listener
    /\ Raise("timeout")
    /\ UNCHANGED <<tokenVars, dm_result, phases, force_oauth, file0, events,
                   auth_token, exchanged, writes, created, listVars, planVars,
                   fetchVars>>
    /\ UNCHANGED <<givenVars, execVars, laterVars>>

\* what oauth.fetch_token may do: raise, or answer without the key
\* "refresh_token", with a null one, or with a refresh token (a new one:
\* the persisted file, when there is one, holds token 1)
ExchangeOutcomes ==
    [status : {"raises", "no_key", "null"}, token : {None}]
    \cup
    [status : {"ok"}, token : RefreshTokens \ {1}]

\* an exchange whose answer is not looked at
HasRefreshTokenUnchecked(resp) == resp.status # "raises"

\* refresh_token = response["refresh_token"]
\* assert refresh_token is not None, response
HasRefreshToken(resp) == resp.status = "ok"

\* BackupOneDrive.py:455-463
Create_Exchange(resp) ==
    /\ pc = "Exchange"
    /\ auth_token = None => resp.status = "raises"
    /\ exchanged' = resp
    /\ IF resp.status = "raises"
       THEN /\ Raise("exchange")
            /\ UNCHANGED events
       ELSE IF ~HasRefreshToken(resp)
       THEN /\ Raise("no_refresh_token")
            /\ UNCHANGED events
       ELSE /\ events' = Append(events, "exchanged")
            /\ pc' = "Persist"
            /\ UNCHANGED failure
    /\ UNCHANGED <<tokenVars, dm_result, phases, force_oauth, file0, listener,
                   auth_token, writes, created, listVars, planVars, fetchVars>>
    /\ UNCHANGED <<givenVars, execVars, laterVars>>

\* with data_filename.open("w") as f: f.write(refresh_token)
\* return cls(oauth, refresh_token, ...)
Create_Persist ==
    /\ pc = "Persist"
    /\ data_file' = FileHolding(exchanged.token)
    /\ writes' = writes + 1
    /\ events' = Append(events, "written")
    /\ refresh_token' = exchanged.token
    /\ created' = TRUE
    /\ pc' = "GetToken"
    /\ UNCHANGED <<tokenRest, failure, dm_result, phases, force_oauth, file0,
                   listener, auth_token, exchanged, listVars, planVars,
                   fetchVars>>
    /\ UNCHANGED <<givenVars, execVars, laterVars>>

-----------------------------------------------------------------------------
(* The Backup command: first token and the profile check                   *)

\* token.GetAccessToken() (BackupOneDrive.py:194); the refresh itself is
\* the subject of SpecToken
Backup_GetToken ==
    /\ pc = "GetToken"
    /\ pc' = "Profile"
    /\ UNCHANGED <<tokenVars, failure, dm_result, phases, createVars,
                   listVars, planVars, fetchVars>>
    /\ UNCHANGED <<givenVars, execVars, laterVars>>

Backup_GetTokenRaises ==
    /\ pc = "GetToken"
    /\ Raise("token")
    /\ UNCHANGED <<tokenVars, dm_result, phases, createVars, listVars,
                   planVars, fetchVars>>
    /\ UNCHANGED <<givenVars, execVars, laterVars>>

NoEmail == "None"

Profiles == [displayName : {"user", "other"}, mail : {"mail", "other"}]

\* the first worklist: the camera roll's children (BackupOneDrive.py:534)
CameraRoll == [folder |-> 0, skip |-> 0]

\* an email check that is never made
EmailMismatchIgnored(expected_email, response) == FALSE

\* if expected_email is not None and response["mail"] != expected_email
EmailMismatch(expected_email, response) ==
    expected_email # NoEmail /\ response.mail # expected_email

\* BackupOneDrive.py:204-224, with expected_username = "user"
Backup_Profile(expected_email, response) ==
    /\ pc = "Profile"
    /\ phases' = phases \cup {"profile"}
    /\ profile' = [expected_email |-> expected_email,
                   displayName |-> response.displayName,
                   mail |-> IF expected_email = NoEmail
                            THEN "None"     \* response["mail"] is not read
                            ELSE response.mail]
    /\ IF response.displayName # "user"
       THEN /\ dm_result' = 0 - 1
            /\ pc' = "Done"
            /\ UNCHANGED to_search
       ELSE IF EmailMismatch(expected_email, response)
       THEN /\ dm_result' = 0 - 1
            /\ pc' = "Done"
            /\ UNCHANGED to_search
       ELSE /\ pc' = "List"
            /\ to_search' = <<CameraRoll>>
            /\ UNCHANGED dm_result
    /\ UNCHANGED <<tokenVars, failure, createVars, remote, files, file_infos,
                   listed, list_requests, last_page, planVars, fetchVars>>
    /\ UNCHANGED <<rules, execVars, laterVars>>

\* the profile request fails: response.raise_for_status()
Backup_ProfileRaises ==
    /\ pc = "Profile"
    /\ phases' = phases \cup {"profile"}
    /\ Raise("profile")
    /\ UNCHANGED <<tokenVars, dm_result, createVars, listVars, planVars,
                   fetchVars>>
    /\ UNCHANGED <<givenVars, execVars, laterVars>>

-----------------------------------------------------------------------------
(* The remote listing API                                                  *)

Min(a, b) == IF a <= b THEN a ELSE b

\* an entry of a listing: "folder" in item, "file" in item, or neither
FolderEntry(i) == [kind |-> "folder", id |-> i]

FileEntry(t, f) == [kind |-> IF t.bad = f THEN "other" ELSE "file", id |-> f]

AllEntries(t) ==
    [n \in 1..(MaxSubfolders + MaxFiles) |->
        IF n <= MaxSubfolders THEN FolderEntry(n)
                              ELSE FileEntry(t, n - MaxSubfolders)]

InFolder(t, e) == IF e.kind = "folder" THEN t.parent[e.id] ELSE t.loc[e.id]

\* the children of folder k, in the order the server lists them
Entries(t, k) ==
    LET Here(e) == InFolder(t, e) = k
    IN  SelectSeq(AllEntries(t), Here)

\* GET url: one page of the listing and, if entries remain, @odata.nextLink
Page(t, url) ==
    LET es == Entries(t, url.folder)
        hi == Min(url.skip + t.page, Len(es))
    IN  [value |-> SubSeq(es, url.skip + 1, hi),
         next |-> IF hi < Len(es) THEN [folder |-> url.folder, skip |-> hi]
                                  ELSE NoLink]

\* the files of the tree, and the number of pages of all its listings
RemoteFiles(t) == {f \in FileIds : t.loc[f] # Absent}

PagesOf(t, k) ==
    LET n == Len(Entries(t, k))
    IN  IF n = 0 THEN 1 ELSE (n + t.page - 1) \div t.page

RECURSIVE SumPages(_, _)
SumPages(t, k) ==
    IF k > MaxSubfolders THEN 0 ELSE PagesOf(t, k) + SumPages(t, k + 1)

NumPages(t) == SumPages(t, 0)

-----------------------------------------------------------------------------
(* _GetFileInfos                                                           *)

\* .../items/{item['id']}/children
ChildrenUrl(item) == [folder |-> item.id, skip |-> 0]

\* a scan in which the assertion is compiled away: the item is passed over
RECURSIVE ScanItemsSkipping(_, _, _)
ScanItemsSkipping(items, stack, found) ==
    IF items = <<>>
    THEN [ok |-> TRUE, stack |-> stack, files |-> found]
    ELSE LET item == Head(items)
         IN  IF item.kind = "folder"
             THEN ScanItemsSkipping(Tail(items),
                                    Append(stack, [folder |-> item.id, skip |-> 0]),
                                    found)
             ELSE IF item.kind = "file"
             THEN ScanItemsSkipping(Tail(items), stack, Append(found, item.id))
             ELSE ScanItemsSkipping(Tail(items), stack, found)

\* for item in response["value"]: ... (BackupOneDrive.py:555-569); ok is
\* FALSE when an item made `assert False, item` fail
RECURSIVE ScanItems(_, _, _)
ScanItems(items, stack, found) ==
    IF items = <<>>
    THEN [ok |-> TRUE, stack |-> stack, files |-> found]
    ELSE LET item == Head(items)
         IN  IF item.kind = "folder"
             THEN ScanItems(Tail(items), Append(stack, ChildrenUrl(item)), found)
             ELSE IF item.kind = "file"
             THEN ScanItems(Tail(items), stack, Append(found, item.id))
             ELSE [ok |-> FALSE, stack |-> stack, files |-> found]

\* a traversal that does not follow continuation links
PushNextDropped(stack, page) == stack

\* if "@odata.nextLink" in response: to_search.append(...)
PushNext(stack, page) ==
    IF page.next # NoLink THEN Append(stack, page.next) ELSE stack

Top(stack) == stack[Len(stack)]

Pop(stack) == SubSeq(stack, 1, Len(stack) - 1)

\* one turn of `while to_search:` whose request succeeds
List_Step ==
    /\ pc = "List"
    /\ to_search # <<>>
    /\ LET page == Page(remote, Top(to_search))
           scan == ScanItems(page.value, Pop(to_search), files)
       IN  /\ list_requests' = list_requests + 1
           /\ last_page' = page
           /\ files' = scan.files
           /\ IF scan.ok
              THEN /\ to_search' = PushNext(scan.stack, page)
                   /\ UNCHANGED <<pc, failure>>
              ELSE /\ to_search' = scan.stack
                   /\ Raise("listing_assert")
    /\ phases' = phases \cup {"listing"}
    /\ UNCHANGED <<tokenVars, dm_result, createVars, remote, file_infos,
                   listed, planVars, fetchVars>>
    /\ UNCHANGED <<givenVars, execVars, laterVars>>

\* a listing error that is reported and then passed over
List_HttpErrorSwallowed ==
    /\ pc = "List"
    /\ to_search # <<>>
    /\ to_search' = Pop(to_search)
    /\ list_requests' = list_requests + 1
    /\ phases' = phases \cup {"listing"}
    /\ dm_result' = 0 - 1
    /\ failure' = "listing_http"
    /\ file_infos' = files
    /\ listed' = TRUE
    /\ pc' = "Plan"
    /\ UNCHANGED <<tokenVars, createVars, remote, files, last_page, planVars,
                   fetchVars>>
    /\ UNCHANGED <<givenVars, execVars, laterVars>>

\* one turn whose request fails: get_headers_func() or
\* response.raise_for_status() raises
List_HttpError ==
    /\ pc = "List"
    /\ to_search # <<>>
    /\ to_search' = Pop(to_search)
    /\ list_requests' = list_requests + 1
    /\ phases' = phases \cup {"listing"}
    /\ Raise("listing_http")
    /\ UNCHANGED <<tokenVars, dm_result, createVars, remote, files,
                   file_infos, listed, last_page, planVars, fetchVars>>
    /\ UNCHANGED <<givenVars, execVars, laterVars>>

\* the worklist is empty: return files; then, in Backup,
\* `if dm.result != 0: return` (BackupOneDrive.py:227-230)
List_Return ==
    /\ pc = "List"
    /\ to_search = <<>>
    /\ file_infos' = files
    /\ listed' = TRUE
    /\ phases' = phases \cup {"listing"}
    /\ pc' = IF dm_result # 0 THEN "Done" ELSE "Plan"
    /\ UNCHANGED <<tokenVars, failure, dm_result, createVars, remote,
                   to_search, files, list_requests, last_page, planVars,
                   fetchVars>>
    /\ UNCHANGED <<givenVars, execVars, laterVars>>

InitListing ==
    /\ refresh_token \in RefreshTokens
    /\ data_file = FileHolding(refresh_token)
    /\ IdleToken
    /\ pc = "List"
    /\ IdleRun
    /\ IdleCreate
    /\ remote \in RemoteTrees
    /\ to_search = <<CameraRoll>>
    /\ files = <<>>
    /\ file_infos = <<>>
    /\ listed = FALSE
    /\ list_requests = 0
    /\ last_page = NoPage
    /\ IdlePlan
    /\ IdleFetch
    /\ IdleGiven
    /\ IdleExec
    /\ IdleLater

NextListing ==
    \/ List_Step
    \/ List_HttpError
    \/ List_Return

SpecListing == InitListing /\ [][NextListing]_vars

-----------------------------------------------------------------------------
(* _GetFilesToProcess                                                      *)

\* The metadata of the remote files of the tree, by identifier: the name
\* and its extension, the kind tags the item carries as fields, and the
\* creation date.
Catalog ==
    <<[name |-> "a.jpg", ext |-> ".jpg", markers |-> {"image"},
       date |-> <<2024, 8, 5>>],
      [name |-> "c.mp4", ext |-> ".mp4", markers |-> {"video"},
       date |-> <<2024, 8, 5>>],
      [name |-> "b.txt", ext |-> ".txt", markers |-> {},
       date |-> <<2024, 8, 6>>],
      [name |-> "d.thm", ext |-> ".thm", markers |-> {},
       date |-> <<2024, 8, 6>>],
      [name |-> "e.jpg", ext |-> ".jpg", markers |-> {"video"},
       date |-> <<2024, 8, 7>>],
      [name |-> "f.thm", ext |-> ".thm", markers |-> {"image"},
       date |-> <<2024, 8, 7>>],
      [name |-> "g.mp4", ext |-> ".mp4", markers |-> {},
       date |-> <<2024, 8, 7>>],
      [name |-> "h.thm", ext |-> ".thm", markers |-> {"video"},
       date |-> <<2024, 8, 8>>]>>

ItemOf(f) == Catalog[((f - 1) % Len(Catalog)) + 1]

\* file_processors, in insertion order (BackupOneDrive.py:606-618)
FileProcessors(pictures, videos) ==
    (IF pictures
     THEN <<[tag |-> "image", file_types |-> {".jpg", ".heic"},
             subdir |-> "pictures"]>>
     ELSE <<>>)
    \o
    (IF videos
     THEN <<[tag |-> "video", file_types |-> {".avi", ".mp4"},
             subdir |-> "videos"]>>
     ELSE <<>>)

NoProcessor == [tag |-> "none", file_types |-> {}, subdir |-> "none"]

\* a planner that ignores no extension
ignore_file_types_none == {}

ignore_file_types == {".thm"}

\* for name, processor in file_processors.items(): the first processor
\* whose tag is a field of the item or whose file types hold its extension
RECURSIVE SelectProcessor(_, _)
SelectProcessor(item, processors) ==
    IF processors = <<>>
    THEN NoProcessor
    ELSE LET p == Head(processors)
         IN  IF p.tag \in item.markers THEN p
             ELSE IF item.ext \in p.file_types THEN p
             ELSE SelectProcessor(item, Tail(processors))

\* dest: the processor's directory, the template expanded with the
\* creation date, the file's name (BackupOneDrive.py:645-656)
Dest(item, processor) ==
    [subdir |-> processor.subdir, date |-> item.date, name |-> item.name]

\* an existence check that never finds the destination
IsFileNever(dest, existing) == FALSE

\* dest.is_file()
IsFile(dest, existing) == dest \in existing

\* for file_info in file_infos: ... (BackupOneDrive.py:622-662)
RECURSIVE PlanItems(_, _, _, _)
PlanItems(items, processors, existing, acc) ==
    IF items = <<>>
    THEN acc
    ELSE LET f == Head(items)
             item == ItemOf(f)
             p == SelectProcessor(item, processors)
             rest == Tail(items)
         IN  IF item.ext \in ignore_file_types
             THEN PlanItems(rest, processors, existing, acc)
             ELSE IF p = NoProcessor
             THEN PlanItems(rest, processors, existing,
                            [acc EXCEPT !.errors = @ \cup {f}])
             ELSE IF IsFile(Dest(item, p), existing)
             THEN PlanItems(rest, processors, existing, acc)
             ELSE PlanItems(rest, processors, existing,
                            [acc EXCEPT !.plan =
                                Append(@, [file |-> f, dest |-> Dest(item, p)])])

GetFilesToProcess(items, pictures, videos, existing) ==
    PlanItems(items, FileProcessors(pictures, videos), existing,
              [plan |-> <<>>, errors |-> {}])

\* a command that does not look at dm.result after planning
Backup_PlanUnchecked(pictures, videos) ==
    /\ pc = "Plan"
    /\ LET r == GetFilesToProcess(file_infos, pictures, videos, local)
       IN  /\ files_to_process' = r.plan
           /\ plan_errors' = r.errors
           /\ dm_result' = IF r.errors # {} THEN 0 - 1 ELSE dm_result
           /\ pc' = IF r.plan = <<>> THEN "Done" ELSE "Process"
    /\ phases' = phases \cup {"planning"}
    /\ UNCHANGED <<tokenVars, failure, createVars, listVars, fetchVars>>
    /\ rules' = [pictures |-> pictures, videos |-> videos]
    /\ UNCHANGED <<profile, execVars, laterVars>>

\* files_to_process = _GetFilesToProcess(...); organize_dm.WriteError makes
\* dm.result non-zero; `if dm.result != 0: return`;
\* `if not files_to_process: return` (BackupOneDrive.py:232-246)
Backup_Plan(pictures, videos) ==
    /\ pc = "Plan"
    /\ LET r == GetFilesToProcess(file_infos, pictures, videos, local)
       IN  /\ files_to_process' = r.plan
           /\ plan_errors' = r.errors
           /\ dm_result' = IF r.errors # {} THEN 0 - 1 ELSE dm_result
           /\ pc' = IF dm_result' # 0 \/ r.plan = <<>> THEN "Done"
                                                       ELSE "Process"
    /\ phases' = phases \cup {"planning"}
    /\ UNCHANGED <<tokenVars, failure, createVars, listVars, fetchVars>>
    /\ rules' = [pictures |-> pictures, videos |-> videos]
    /\ UNCHANGED <<profile, execVars, laterVars>>

-----------------------------------------------------------------------------
(* The planner on its own: a catalog is planned, the planned files are     *)
(* fetched, and the unchanged catalog is planned again by the next run     *)

MaxItems == 2           \* items in a catalog handed to the planner

\* catalogs: up to MaxItems different items of the Catalog, in any order
CatalogIds == 1..Len(Catalog)

FileInfos ==
    {<<>>} \cup
    UNION {{s \in [1..n -> CatalogIds] :
              \A i, j \in 1..n : i # j => s[i] # s[j]} : n \in 1..MaxItems}

\* files_to_process = _GetFilesToProcess(...) (BackupOneDrive.py:232-246):
\* with an error reported or nothing to process the command returns
Planner_Plan(pictures, videos) ==
    /\ pc = "Plan"
    /\ rules' = [pictures |-> pictures, videos |-> videos]
    /\ LET r == GetFilesToProcess(file_infos, pictures, videos, local)
       IN  /\ files_to_process' = r.plan
           /\ plan_errors' = r.errors
           /\ dm_result' = IF r.errors # {} THEN 0 - 1 ELSE dm_result
           /\ pc' = IF dm_result' # 0 \/ r.plan = <<>> THEN "Done"
                                                       ELSE "Process"
    /\ phases' = phases \cup {"planning"}
    /\ UNCHANGED <<tokenVars, failure, createVars, listVars, fetchVars,
                   profile, execVars, laterVars>>

\* _ProcessFiles(dm, files_to_process, GetHeaders): the tasks in `done`
\* commit their file to its destination, the other tasks fail
Planner_Process(done) ==
    /\ pc = "Process"
    /\ tasks' = [i \in 1..Len(files_to_process) |->
                    IF i \in done THEN "done" ELSE "failed"]
    /\ local' = local \cup {files_to_process[i].dest : i \in done}
    /\ dm_result' = IF done # DOMAIN files_to_process THEN 0 - 1 ELSE dm_result
    /\ phases' = phases \cup {"download"}
    /\ pc' = "Replan"
    /\ UNCHANGED <<tokenVars, failure, createVars, listVars, planVars,
                   local0, givenVars, execVars, laterVars>>

\* the next run of the command, with the same arguments, plans the
\* unchanged catalog against the local tree the first run left
Planner_Replan ==
    /\ pc = "Replan"
    /\ LET r == GetFilesToProcess(file_infos, rules.pictures, rules.videos,
                                  local)
       IN  /\ files_to_process' = r.plan
           /\ plan_errors' = r.errors
    /\ pc' = "Replanned"
    /\ UNCHANGED <<tokenVars, failure, dm_result, phases, createVars,
                   listVars, fetchVars, givenVars, execVars, laterVars>>

\* what local storage may hold before the first run
PlannerLocalTrees ==
    {{}, {Dest(ItemOf(1), FileProcessors(TRUE, TRUE)[1])}}

InitPlanner ==
    /\ refresh_token \in {1}
    /\ data_file = FileHolding(refresh_token)
    /\ IdleToken
    /\ pc = "Plan"
    /\ IdleRun
    /\ IdleCreate
    /\ remote = EmptyRemote
    /\ to_search = <<>>
    /\ files = <<>>
    /\ file_infos \in FileInfos
    /\ listed = TRUE
    /\ list_requests = 0
    /\ last_page = NoPage
    /\ IdlePlan
    /\ tasks = <<>>
    /\ local \in PlannerLocalTrees
    /\ local0 = local
    /\ IdleGiven
    /\ IdleExec
    /\ IdleLater

NextPlanner ==
    \/ \E pictures \in BOOLEAN, videos \in BOOLEAN : Planner_Plan(pictures, videos)
    \/ \E done \in SUBSET DOMAIN files_to_process : Planner_Process(done)
    \/ Planner_Replan

SpecPlanner == InitPlanner /\ [][NextPlanner]_vars

-----------------------------------------------------------------------------
(* _ProcessFiles: one download task per planned file                       *)

\* ExecuteTasks.TransformTasksEx(dm, ..., [TaskData(...) ...], Prepare)
Process_Submit ==
    /\ pc = "Process"
    /\ tasks' = [i \in 1..Len(files_to_process) |-> "pending"]
    /\ phases' = phases \cup {"download"}
    /\ pc' = "Running"
    /\ UNCHANGED <<tokenVars, failure, dm_result, createVars, listVars,
                   planVars, local, local0>>
    /\ UNCHANGED <<givenVars, execVars, laterVars>>

\* Prepare and Transform of task i run to the end: dest holds the file
Task_Succeeds(i) ==
    /\ pc = "Running"
    /\ tasks[i] = "pending"
    /\ tasks' = [tasks EXCEPT ![i] = "done"]
    /\ local' = local \cup {files_to_process[i].dest}
    /\ UNCHANGED <<tokenVars, runVars, createVars, listVars, planVars,
                   local0>>
    /\ UNCHANGED <<givenVars, execVars, laterVars>>

\* task i raises before the commit
Task_Fails(i) ==
    /\ pc = "Running"
    /\ tasks[i] = "pending"
    /\ tasks' = [tasks EXCEPT ![i] = "failed"]
    /\ UNCHANGED <<tokenVars, runVars, createVars, listVars, planVars,
                   local, local0>>
    /\ UNCHANGED <<givenVars, execVars, laterVars>>

\* every task has finished: TransformTasksEx returns
Process_Return ==
    /\ pc = "Running"
    /\ \A i \in DOMAIN tasks : tasks[i] # "pending"
    /\ dm_result' = IF \E i \in DOMAIN tasks : tasks[i] = "failed"
                    THEN 0 - 1 ELSE dm_result
    /\ pc' = "Done"
    /\ UNCHANGED <<tokenVars, failure, phases, createVars, listVars,
                   planVars, fetchVars>>
    /\ UNCHANGED <<givenVars, execVars, laterVars>>

-----------------------------------------------------------------------------
(* ExecuteTasks.TransformTasksEx and its three callers: the download tasks *)
(* of _ProcessFiles and the hash tasks of RemoveDuplicates and of          *)
(* DeduplicateFiles.  The callers' Prepare and Execute functions are       *)
(* translated from their code; the executor, which is imported from        *)
(* dbrownell_Common, follows its description as the TaskExecutor: a pool   *)
(* of at most max_concurrency workers, each task prepared and executed     *)
(* inside its worker, a failure recorded against its task only, and the    *)
(* results returned by input position.                                     *)

MaxTasks == 2           \* tasks handed to the executor

ChunkSize == 8192       \* f.read(8192), iter_content(chunk_size=8192)

\* byte counts: nothing, less than a chunk, more than a chunk
Sizes == {0, 1, ChunkSize + 1}

Workloads ==
    [kind : {"RemoveDuplicates", "DeduplicateFiles"}, ssd : BOOLEAN]
    \cup [kind : {"Backup"}, ssd : {FALSE}]

\* What a task works on: `size` is what Prepare measures (st_size, or the
\* content-length header), `body` the bytes its execution is given (they
\* differ when the file changes in between, or when the body is not
\* content-length bytes long).  DeduplicateFiles leaves out the files that
\* are empty when it walks the directory (DeduplicateFiles.py:80-81).
ContentsOf(kind) ==
    [size : IF kind = "DeduplicateFiles" THEN Sizes \ {0} ELSE Sizes,
     body : Sizes]

\* hasher.hexdigest(): told apart by the bytes that were hashed
Hash(bytes) == [sha512 |-> bytes]

NoResult == [sha512 |-> None]

\* the weight Prepare returns: `filename.stat().st_size or 1`
\* (BackupOneDrive.py:334), `filename.stat().st_size`
\* (DeduplicateFiles.py:129), `int(response.headers["content-length"])`
\* (BackupOneDrive.py:712, 746)
Weight(kind, c) ==
    IF kind = "RemoveDuplicates"
    THEN (IF c.size = 0 THEN 1 ELSE c.size)
    ELSE c.size

\* a caller that never bounds the threads
MaxNumThreadsNone(w) == None

\* max_num_threads=None if ssd else 1 (BackupOneDrive.py:343,
\* DeduplicateFiles.py:144); _ProcessFiles does not pass it
MaxNumThreads(w) ==
    IF w.kind = "Backup" THEN None
    ELSE IF w.ssd THEN None ELSE 1

\* a loop that counts every chunk as a full one
NextChunkFull(read, c) == IF read < c.body THEN ChunkSize ELSE 0

\* chunk = f.read(8192), or the next piece of iter_content: the bytes that
\* are left, at most a chunk of them
NextChunk(read, c) == Min(ChunkSize, c.body - read)

\* the workers the executor runs at once: max_concurrency, or one per task
\* when it is not bounded
Capacity(w, n) == IF MaxNumThreads(w) = None THEN n ELSE MaxNumThreads(w)

Queued == [state |-> "queued", weight |-> None, progress |-> 0,
           result |-> NoResult]

Active == {i \in DOMAIN etasks : etasks[i].state \in {"preparing", "running"}}

Finished(i) == etasks[i].state \in {"done", "failed"}

execRest == <<tokenVars, phases, createVars, listVars, planVars, fetchVars,
              givenVars, laterVars>>

\* what no step of a task touches
taskRest == <<pc, failure, dm_result, workload, contents, all_results, pairs,
              execRest>>

\* an executor that gives up the waiting tasks when one task fails
RecordFailureCancelling(ts, i) ==
    [j \in DOMAIN ts |->
        IF j = i \/ ts[j].state = "queued"
        THEN [ts[j] EXCEPT !.state = "failed"]
        ELSE ts[j]]

\* a task that raises is recorded as failed; no other task is touched
RecordFailure(ts, i) == [ts EXCEPT ![i].state = "failed"]

\* a worker is free and takes the next task of the list
Exec_Start(i) ==
    /\ pc = "Execute"
    /\ etasks[i].state = "queued"
    /\ \A j \in 1..(i - 1) : etasks[j].state # "queued"
    /\ Cardinality(Active) < Capacity(workload, Len(etasks))
    /\ etasks' = [etasks EXCEPT ![i].state = "preparing"]
    /\ UNCHANGED <<finished, taskRest>>

\* PrepareTask, CalculateHash or Prepare returns (weight, function)
Exec_Prepare(i) ==
    /\ pc = "Execute"
    /\ etasks[i].state = "preparing"
    /\ etasks' = [etasks EXCEPT ![i].state = "running",
                                ![i].weight = Weight(workload.kind, contents[i])]
    /\ UNCHANGED <<finished, taskRest>>

\* it raises instead: filename.stat(), requests.get,
\* response.raise_for_status(), response.headers["content-length"]
Exec_PrepareRaises(i) ==
    /\ pc = "Execute"
    /\ etasks[i].state = "preparing"
    /\ etasks' = RecordFailure(etasks, i)
    /\ finished' = Append(finished, i)
    /\ UNCHANGED taskRest

\* one turn of the loop: a chunk is read (hashed, or written to the
\* temporary file) and status.OnProgress(hashed or copied, ...) is called
Exec_Chunk(i) ==
    /\ pc = "Execute"
    /\ etasks[i].state = "running"
    /\ NextChunk(etasks[i].progress, contents[i]) > 0
    /\ etasks' = [etasks EXCEPT ![i].progress =
                      @ + NextChunk(etasks[i].progress, contents[i])]
    /\ UNCHANGED <<finished, taskRest>>

\* no chunk is left: ExecuteTask and Execute return hasher.hexdigest();
\* Transform calls status.OnProgress(copied, "Copying to ...") and moves the
\* temporary file to dest
Exec_Finish(i) ==
    /\ pc = "Execute"
    /\ etasks[i].state = "running"
    /\ NextChunk(etasks[i].progress, contents[i]) = 0
    /\ etasks' = [etasks EXCEPT ![i].state = "done",
                                ![i].result =
                                    IF workload.kind = "Backup"
                                    THEN NoResult
                                    ELSE Hash(etasks[i].progress)]
    /\ finished' = Append(finished, i)
    /\ UNCHANGED taskRest

\* the function raises: filename.open, f.read, f.write, shutil.move
Exec_ExecuteRaises(i) ==
    /\ pc = "Execute"
    /\ etasks[i].state = "running"
    /\ etasks' = RecordFailure(etasks, i)
    /\ finished' = Append(finished, i)
    /\ UNCHANGED taskRest

\* every task has finished: the executor returns the results by position;
\* a failed task makes dm.result non-zero
Exec_Return ==
    /\ pc = "Execute"
    /\ \A i \in DOMAIN etasks : Finished(i)
    /\ all_results' = [i \in DOMAIN etasks |-> etasks[i].result]
    /\ dm_result' = IF \E i \in DOMAIN etasks : etasks[i].state = "failed"
                    THEN 0 - 1 ELSE dm_result
    /\ pc' = IF workload.kind = "Backup" THEN "Done" ELSE "Organize"
    /\ UNCHANGED <<failure, workload, contents, etasks, finished, pairs,
                   execRest>>

\* a pairing that reads the hashes in the order the tasks finished in
ZipByFinish(names, hashes) ==
    {<<finished[k], hashes[k]>> : k \in DOMAIN finished}

\* zip(all_filenames, all_hashes) (BackupOneDrive.py:355) and
\* zip(all_filenames, hash_values) (DeduplicateFiles.py:150)
Zip(names, hashes) == {<<names[k], hashes[k]>> : k \in DOMAIN names}

\* for filename, hash_value in zip(...): assert isinstance(hash_value, str);
\* the assertion fails on the result of a task that failed
Organize ==
    /\ pc = "Organize"
    /\ IF \E i \in DOMAIN all_results : all_results[i] = NoResult
       THEN /\ Raise("hash_assert")
            /\ UNCHANGED pairs
       ELSE /\ pairs' = Zip([i \in DOMAIN contents |-> i], all_results)
            /\ pc' = "Done"
            /\ UNCHANGED failure
    /\ UNCHANGED <<dm_result, workload, contents, etasks, finished,
                   all_results, execRest>>

InitExecutor ==
    /\ refresh_token \in {1}
    /\ data_file = FileHolding(refresh_token)
    /\ IdleToken
    /\ pc = "Execute"
    /\ IdleRun
    /\ IdleCreate
    /\ IdleListing
    /\ IdlePlan
    /\ IdleFetch
    /\ IdleGiven
    /\ IdleLater
    /\ workload \in Workloads
    /\ contents \in UNION {[1..n -> ContentsOf(workload.kind)] : n \in 1..MaxTasks}
    /\ etasks = [i \in DOMAIN contents |-> Queued]
    /\ finished = <<>>
    /\ all_results = <<>>
    /\ pairs = {}

NextExecutor ==
    \/ \E i \in DOMAIN etasks : Exec_Start(i)
    \/ \E i \in DOMAIN etasks : Exec_Prepare(i)
    \/ \E i \in DOMAIN etasks : Exec_PrepareRaises(i)
    \/ \E i \in DOMAIN etasks : Exec_Chunk(i)
    \/ \E i \in DOMAIN etasks : Exec_Finish(i)
    \/ \E i \in DOMAIN etasks : Exec_ExecuteRaises(i)
    \/ Exec_Return
    \/ Organize

SpecExecutor == InitExecutor /\ [][NextExecutor]_vars

-----------------------------------------------------------------------------
(* _ProcessFiles.Prepare and Transform, statement by statement, on a file  *)
(* system: the download request and its headers, the temporary file, the   *)
(* directory of the destination, the '.tmp' sibling and the destination.   *)
(* The command may be killed while its tasks run, and it may be run again. *)

MaxFetch == 2           \* files planned in one run
MaxAttempts == 2        \* runs of the command in one behaviour

\* The remote files of this part, by identifier.  Files 1 and 3 carry the
\* same name and creation date in two remote folders, and so do files 2
\* and 4; all four are pictures of one day.
FetchIds == 1..4

FetchName(f) == IF f \in {1, 3} THEN "a.jpg" ELSE "b.jpg"

\* dest of file f, as _GetFilesToProcess computes it
\* (BackupOneDrive.py:645-656)
FetchDest(f) ==
    [subdir |-> "pictures", date |-> <<2024, 8, 5>>, name |-> FetchName(f)]

\* the values of 'tempauth' in the query of the file's
\* "@microsoft.graph.downloadUrl", in the order they appear: one value, no
\* such parameter, one blank value ("...?tempauth="), two values
TempAuthIn(f) ==
    CASE f = 1 -> <<"t1">>
      [] f = 2 -> <<>>
      [] f = 3 -> <<"">>
      [] OTHER -> <<"t1", "t2">>

\* dest.parent
Parent(dest) == [subdir |-> dest.subdir, date |-> dest.date]

\* a path of the destination tree: the destination itself, or
\* dest.parent / f"{dest.name}.tmp"
PathOf(dest) == [dest |-> dest, suffix |-> ""]

DestTemp(dest) == [dest |-> dest, suffix |-> ".tmp"]

AllDests == {FetchDest(f) : f \in FetchIds}

AllPaths == {PathOf(d) : d \in AllDests} \cup {DestTemp(d) : d \in AllDests}

\* what a path holds: nothing; every byte of remote file `of`; the bytes
\* task `by` has written so far while it copies; the bytes a killed
\* process had written
NoContent == [state |-> "absent", of |-> None, by |-> None]

Complete(f) == [state |-> "complete", of |-> f, by |-> None]

Partial(f, i) == [state |-> "partial", of |-> f, by |-> i]

Torn(f) == [state |-> "torn", of |-> f, by |-> None]

Exists(path) == disk.files[path] # NoContent

\* the destinations that are files (dest.is_file(), BackupOneDrive.py:658)
ExistingDests == {d \in AllDests : Exists(PathOf(d))}

\* for file_info in file_infos: ... if dest.is_file(): continue
\* (BackupOneDrive.py:622-662), for files that all have a processor
RECURSIVE PlanFetch(_, _)
PlanFetch(items, existing) ==
    IF items = <<>>
    THEN <<>>
    ELSE LET f == Head(items)
             rest == PlanFetch(Tail(items), existing)
         IN  IF IsFile(FetchDest(f), existing)
             THEN rest
             ELSE <<[file |-> f, dest |-> FetchDest(f)]>> \o rest

NoHeaders == [name |-> "none", value |-> "none"]

\* `temp` is the file PathEx.CreateTempFileName() names for the task, which
\* lies outside the destination tree: not created, written in part, written
\* in full, or moved away
NewTask == [pc |-> "prepare", raised |-> "none", headers |-> NoHeaders,
            asked |-> FALSE, stale |-> FALSE, temp |-> "none"]

\* a parser that keeps no value
ParseQsNone(values) == <<>>

\* parse_qs(parsed_url.query).get("tempauth", None): parse_qs leaves out
\* the parameters whose value is blank (keep_blank_values=False); the
\* empty sequence stands for None
ParseQs(values) == SelectSeq(values, LAMBDA v : v # "")

\* GetHeaders() (BackupOneDrive.py:197-200)
GetHeaders == [name |-> "Authorization", value |-> "Bearer access_token"]

commitRest == <<tokenVars, failure, phases, createVars, listVars, fetchVars,
                givenVars, execVars, dedupVars, lastVars>>

\* what no statement of a task touches
stepRest == <<pc, dm_result, planVars, attempt, commitRest>>

FetchFinished(i) == fetch[i].pc \in {"done", "failed"}

FetchRaise(i, e) == [fetch EXCEPT ![i].pc = "failed", ![i].raised = e]

\* files_to_process = _GetFilesToProcess(...); `if not files_to_process:
\* return`; _ProcessFiles hands one task per planned file to the executor
\* (BackupOneDrive.py:232-248, 750-755)
Fetch_Plan ==
    /\ pc = "Plan"
    /\ files_to_process' = PlanFetch(file_infos, ExistingDests)
    /\ fetch' = [i \in DOMAIN files_to_process' |-> NewTask]
    /\ pc' = IF files_to_process' = <<>> THEN "Done" ELSE "Process"
    /\ attempt' = attempt + 1
    /\ UNCHANGED <<dm_result, plan_errors, disk, mkdir_lock, commitRest>>

\* Prepare up to requests.get (BackupOneDrive.py:694-708): the headers are
\* the 'tempauth' value of the query, or else what get_headers_func returns
Prepare(i) ==
    /\ pc = "Process"
    /\ fetch[i].pc = "prepare"
    /\ LET tempauth == ParseQs(TempAuthIn(files_to_process[i].file))
       IN  fetch' =
             IF tempauth # <<>>
             THEN IF Len(tempauth) # 1
                  THEN FetchRaise(i, "AssertionError")
                  ELSE [fetch EXCEPT ![i].pc = "download",
                                     ![i].headers = [name |-> "Bearer",
                                                     value |-> tempauth[1]]]
             ELSE [fetch EXCEPT ![i].pc = "download",
                                ![i].headers = GetHeaders,
                                ![i].asked = TRUE]
    /\ UNCHANGED <<disk, mkdir_lock, stepRest>>

\* a failure handler that also removes the '.tmp' sibling of the destination
Transform_DownloadRaisesCleaning(i) ==
    /\ pc = "Process"
    /\ fetch[i].pc = "download"
    /\ \E streaming \in BOOLEAN :
          fetch' = [FetchRaise(i, "HTTPError") EXCEPT
                       ![i].temp = IF streaming THEN "partial" ELSE "none"]
    /\ disk' = [disk EXCEPT
                   !.files[DestTemp(files_to_process[i].dest)] = NoContent]
    /\ UNCHANGED <<mkdir_lock, stepRest>>

\* requests.get or response.raise_for_status() raises, before the temporary
\* file is created, or a chunk of the body raises while the file is being
\* written, and the file stays as far as it was written; nothing catches
\* the exception (BackupOneDrive.py:704-727)
Transform_DownloadRaises(i) ==
    /\ pc = "Process"
    /\ fetch[i].pc = "download"
    /\ \E streaming \in BOOLEAN :
          fetch' = [FetchRaise(i, "HTTPError") EXCEPT
                       ![i].temp = IF streaming THEN "partial" ELSE "none"]
    /\ UNCHANGED <<disk, mkdir_lock, stepRest>>

\* every chunk of the response is written to the temporary file
\* (BackupOneDrive.py:720-729)
Transform_Download(i) ==
    /\ pc = "Process"
    /\ fetch[i].pc = "download"
    /\ fetch' = [fetch EXCEPT ![i].pc = "check_dir", ![i].temp = "complete"]
    /\ UNCHANGED <<disk, mkdir_lock, stepRest>>

\* `if not dest.parent.is_dir():` (BackupOneDrive.py:732)
Transform_CheckDir(i) ==
    /\ pc = "Process"
    /\ fetch[i].pc = "check_dir"
    /\ fetch' = [fetch EXCEPT ![i].pc =
                    IF Parent(files_to_process[i].dest) \in disk.dirs
                    THEN "unlink_temp" ELSE "lock"]
    /\ UNCHANGED <<disk, mkdir_lock, stepRest>>

\* `with mkdir_lock:` (BackupOneDrive.py:673, 733): the task waits until
\* nobody holds the lock
Transform_Lock(i) ==
    /\ pc = "Process"
    /\ fetch[i].pc = "lock"
    /\ mkdir_lock = 0
    /\ mkdir_lock' = i
    /\ fetch' = [fetch EXCEPT ![i].pc = "mkdir"]
    /\ UNCHANGED <<disk, stepRest>>

\* a directory creation that fails on a directory that exists
exist_ok_false == FALSE

\* mkdir(parents=True, exist_ok=True)
exist_ok == TRUE

\* dest.parent.mkdir(parents=True, exist_ok=True), and the lock is released
\* (BackupOneDrive.py:733-734)
Transform_Mkdir(i) ==
    /\ pc = "Process"
    /\ fetch[i].pc = "mkdir"
    /\ mkdir_lock = i
    /\ LET parent == Parent(files_to_process[i].dest)
       IN  IF parent \in disk.dirs /\ ~exist_ok
           THEN /\ fetch' = FetchRaise(i, "FileExistsError")
                /\ UNCHANGED disk
           ELSE /\ fetch' = [fetch EXCEPT ![i].pc = "unlink_temp"]
                /\ disk' = [disk EXCEPT !.dirs = @ \cup {parent}]
    /\ mkdir_lock' = 0
    /\ UNCHANGED stepRest

\* an unlink that raises when the file is missing
MissingOkFalse(path) == Exists(path)

\* unlink(missing_ok=True): whether the call returns without raising
MissingOk(path) == TRUE

\* dest_temp.unlink(missing_ok=True) (BackupOneDrive.py:736-738)
Transform_UnlinkTemp(i) ==
    /\ pc = "Process"
    /\ fetch[i].pc = "unlink_temp"
    /\ LET dest_temp == DestTemp(files_to_process[i].dest)
       IN  IF MissingOk(dest_temp)
           THEN /\ fetch' = [fetch EXCEPT ![i].pc = "move_temp",
                                          ![i].stale = Exists(dest_temp)]
                /\ disk' = [disk EXCEPT !.files[dest_temp] = NoContent]
           ELSE /\ fetch' = FetchRaise(i, "FileNotFoundError")
                /\ UNCHANGED disk
    /\ UNCHANGED <<mkdir_lock, stepRest>>

\* where shutil.move(temp_filename, dest_temp) puts the temporary file
FirstHop(dest) == DestTemp(dest)

\* shutil.move(temp_filename, dest_temp) (BackupOneDrive.py:739) when the
\* temporary file lies on the volume of the destination: os.rename
Transform_MoveTemp(i) ==
    /\ pc = "Process"
    /\ fetch[i].pc = "move_temp"
    /\ disk' = [disk EXCEPT !.files[FirstHop(files_to_process[i].dest)] =
                    Complete(files_to_process[i].file)]
    /\ fetch' = [fetch EXCEPT ![i].pc = "unlink_dest", ![i].temp = "moved"]
    /\ UNCHANGED <<mkdir_lock, stepRest>>

\* the same call when it lies on another volume: os.rename raises and
\* shutil.move copies; the copy opens dest_temp for writing, which creates
\* or truncates it, and writes the bytes piece by piece
Transform_CopyTemp(i) ==
    /\ pc = "Process"
    /\ fetch[i].pc = "move_temp"
    /\ disk' = [disk EXCEPT !.files[FirstHop(files_to_process[i].dest)] =
                    Partial(files_to_process[i].file, i)]
    /\ fetch' = [fetch EXCEPT ![i].pc = "copying"]
    /\ UNCHANGED <<mkdir_lock, stepRest>>

\* the last piece is written, to the file the task opened, wherever it has
\* been moved to since; the copy ends by setting the times of the path
\* dest_temp, which raises when nothing has that name any more
Transform_CopyTempEnd(i) ==
    /\ pc = "Process"
    /\ fetch[i].pc = "copying"
    /\ LET f == files_to_process[i].file
           written == [p \in AllPaths |->
                          IF disk.files[p] = Partial(f, i)
                          THEN Complete(f) ELSE disk.files[p]]
       IN  /\ disk' = [disk EXCEPT !.files = written]
           /\ fetch' = IF written[FirstHop(files_to_process[i].dest)]
                            # NoContent
                       THEN [fetch EXCEPT ![i].pc = "unlink_dest",
                                          ![i].temp = "moved"]
                       ELSE FetchRaise(i, "FileNotFoundError")
    /\ UNCHANGED <<mkdir_lock, stepRest>>

\* dest.unlink(missing_ok=True) (BackupOneDrive.py:741)
Transform_UnlinkDest(i) ==
    /\ pc = "Process"
    /\ fetch[i].pc = "unlink_dest"
    /\ LET dest == PathOf(files_to_process[i].dest)
       IN  IF MissingOk(dest)
           THEN /\ fetch' = [fetch EXCEPT ![i].pc = "move_dest"]
                /\ disk' = [disk EXCEPT !.files[dest] = NoContent]
           ELSE /\ fetch' = FetchRaise(i, "FileNotFoundError")
                /\ UNCHANGED disk
    /\ UNCHANGED <<mkdir_lock, stepRest>>

\* a move that leaves its source in place
SourceAfterCopy(content) == content

\* what the source of a move holds afterwards: the name is gone
SourceAfterMove(content) == NoContent

\* shutil.move(dest_temp, dest) (BackupOneDrive.py:742): a rename inside
\* the directory; it raises when dest_temp is missing
Transform_MoveDest(i) ==
    /\ pc = "Process"
    /\ fetch[i].pc = "move_dest"
    /\ LET dest == PathOf(files_to_process[i].dest)
           dest_temp == DestTemp(files_to_process[i].dest)
       IN  IF Exists(dest_temp)
           THEN /\ disk' = [disk EXCEPT !.files[dest] = disk.files[dest_temp],
                                        !.files[dest_temp] =
                                            SourceAfterMove(disk.files[dest_temp])]
                /\ fetch' = [fetch EXCEPT ![i].pc = "done"]
           ELSE /\ fetch' = FetchRaise(i, "FileNotFoundError")
                /\ UNCHANGED disk
    /\ UNCHANGED <<mkdir_lock, stepRest>>

\* every task has finished: TransformTasksEx returns; a failed task makes
\* dm.result non-zero (BackupOneDrive.py:248-250)
Fetch_Return ==
    /\ pc = "Process"
    /\ \A i \in DOMAIN fetch : FetchFinished(i)
    /\ dm_result' = IF \E i \in DOMAIN fetch : fetch[i].pc = "failed"
                    THEN 0 - 1 ELSE dm_result
    /\ pc' = "Done"
    /\ UNCHANGED <<planVars, disk, fetch, mkdir_lock, attempt, commitRest>>

\* the process is killed while its tasks run: what a task was writing stays
\* as far as it was written, the lock goes with the process
Fetch_Killed ==
    /\ pc = "Process"
    /\ attempt < MaxAttempts
    /\ disk' = [disk EXCEPT !.files =
                   [p \in AllPaths |->
                       IF disk.files[p].state = "partial"
                       THEN Torn(disk.files[p].of) ELSE disk.files[p]]]
    /\ fetch' = <<>>
    /\ mkdir_lock' = 0
    /\ pc' = "Killed"
    /\ UNCHANGED <<dm_result, planVars, attempt, commitRest>>

\* the command is run again on the same remote files
Fetch_Rerun ==
    /\ pc \in {"Done", "Killed"}
    /\ attempt < MaxAttempts
    /\ pc' = "Plan"
    /\ dm_result' = 0
    /\ fetch' = <<>>
    /\ UNCHANGED <<planVars, disk, mkdir_lock, attempt, commitRest>>

InitCommit ==
    /\ refresh_token \in {1}
    /\ data_file = FileHolding(refresh_token)
    /\ IdleToken
    /\ pc = "Plan"
    /\ IdleRun
    /\ IdleCreate
    /\ remote = EmptyRemote
    /\ to_search = <<>>
    /\ files = <<>>
    /\ file_infos \in UNION {{s \in [1..n -> FetchIds] :
                                \A i, j \in 1..n : i # j => s[i] # s[j]} :
                             n \in 1..MaxFetch}
    /\ listed = TRUE
    /\ list_requests = 0
    /\ last_page = NoPage
    /\ IdlePlan
    /\ IdleFetch
    /\ IdleGiven
    /\ IdleExec
    /\ disk \in [dirs : SUBSET {Parent(d) : d \in AllDests},
                 files : {[p \in AllPaths |-> NoContent]}]
    /\ fetch = <<>>
    /\ mkdir_lock = 0
    /\ attempt = 0
    /\ IdleDedup
    /\ IdleLast

NextCommit ==
    \/ Fetch_Plan
    \/ \E i \in DOMAIN fetch : Prepare(i)
    \/ \E i \in DOMAIN fetch : Transform_DownloadRaises(i)
    \/ \E i \in DOMAIN fetch : Transform_Download(i)
    \/ \E i \in DOMAIN fetch : Transform_CheckDir(i)
    \/ \E i \in DOMAIN fetch : Transform_Lock(i)
    \/ \E i \in DOMAIN fetch : Transform_Mkdir(i)
    \/ \E i \in DOMAIN fetch : Transform_UnlinkTemp(i)
    \/ \E i \in DOMAIN fetch : Transform_MoveTemp(i)
    \/ \E i \in DOMAIN fetch : Transform_CopyTemp(i)
    \/ \E i \in DOMAIN fetch : Transform_CopyTempEnd(i)
    \/ \E i \in DOMAIN fetch : Transform_UnlinkDest(i)
    \/ \E i \in DOMAIN fetch : Transform_MoveDest(i)
    \/ Fetch_Return
    \/ Fetch_Killed
    \/ Fetch_Rerun

SpecCommit == InitCommit /\ [][NextCommit]_vars

-----------------------------------------------------------------------------
(* RemoveDuplicates (BackupOneDrive.py:254-395) and DeduplicateFiles'       *)
(* EntryPoint (DeduplicateFiles.py:36-200) on a directory tree: the walk,    *)
(* the hashes as the executor returns them, the grouping, the removal of    *)
(* the duplicates and of the empty directories.  The same tree is given to  *)
(* a dry run and then to a real run of the command, each working on its     *)
(* own copy.                                                                *)

MaxEntries == 3         \* files in the directory tree

\* the directory given to the command (0), one directory inside it (1) and
\* one inside that one (2)
DedupDirs == {0, 1, 2}

DedupNames == {"A.jpg", "B.jpg"}

DedupPaths == [dir : DedupDirs, name : DedupNames]

\* what a file holds: no byte (0), or one of two different contents; None
\* where there is no file
Bytes == 0..2

\* the trees: the files, the directories, and the order in which the
\* system lists the names of a directory
Trees ==
    {t \in [files : [DedupPaths -> {None} \cup Bytes],
            dirs : {{0}, {0, 1}, {0, 1, 2}},
            listing : {<<"A.jpg", "B.jpg">>, <<"B.jpg", "A.jpg">>}] :
        /\ Cardinality({p \in DedupPaths : t.files[p] # None}) <= MaxEntries
        /\ \A p \in DedupPaths : t.files[p] # None => p.dir \in t.dirs}

\* `if fullpath.stat().st_size == 0: continue` (DeduplicateFiles.py:80-81);
\* RemoveDuplicates takes every file (BackupOneDrive.py:299)
Skips(kind, filesNow, p) == kind = "DeduplicateFiles" /\ filesNow[p] = 0

\* for root_str, _, filenames in os.walk(...): the files of directory d of
\* the tree, in listing order, then those of the directories after it
RECURSIVE WalkFrom(_, _, _, _, _)
WalkFrom(kind, d, filesNow, dirsNow, listing) ==
    IF d \notin DedupDirs
    THEN <<>>
    ELSE (IF d \in dirsNow
          THEN SelectSeq([k \in DOMAIN listing |->
                             [dir |-> d, name |-> listing[k]]],
                         LAMBDA p : /\ filesNow[p] # None
                                    /\ ~Skips(kind, filesNow, p))
          ELSE <<>>)
         \o WalkFrom(kind, d + 1, filesNow, dirsNow, listing)

\* a grouping by the hash alone in both commands
KeyByHash(kind, p, h) == [name |-> "", hash |-> h]

\* a grouping by the name and the hash in both commands
KeyByNameAndHash(kind, p, h) == [name |-> p.name, hash |-> h]

\* the key under which a file is filed: hash_value (BackupOneDrive.py:357),
\* (filename.name, hash_value) (DeduplicateFiles.py:154-157)
Key(kind, p, h) ==
    IF kind = "RemoveDuplicates"
    THEN [name |-> "", hash |-> h]
    ELSE [name |-> p.name, hash |-> h]

\* hash_map.setdefault(key, []).append(filename): the dictionary keeps its
\* keys in the order they were first inserted
RECURSIVE SetDefaultAppend(_, _, _)
SetDefaultAppend(groups, key, p) ==
    IF groups = <<>>
    THEN <<[key |-> key, filenames |-> <<p>>]>>
    ELSE IF Head(groups).key = key
    THEN <<[Head(groups) EXCEPT !.filenames = Append(@, p)]>> \o Tail(groups)
    ELSE <<Head(groups)>> \o SetDefaultAppend(Tail(groups), key, p)

\* for filename, hash_value in zip(all_filenames, all_hashes): ...
RECURSIVE OrganizeFrom(_, _, _, _, _)
OrganizeFrom(kind, names, hashes, k, groups) ==
    IF k > Len(names)
    THEN groups
    ELSE OrganizeFrom(kind, names, hashes, k + 1,
                      SetDefaultAppend(groups, Key(kind, names[k], hashes[k]),
                                       names[k]))

\* `if len(dup_filenames) > 1` (BackupOneDrive.py:359-361),
\* `if len(filenames) != 1` (DeduplicateFiles.py:160-162)
Duplicates(groups) == SelectSeq(groups, LAMBDA g : Len(g.filenames) # 1)

\* a cleanup that removes every member of a group
AllOf(filenames) == filenames

\* dup_filenames[1:] (BackupOneDrive.py:372), filenames[1:]
\* (DeduplicateFiles.py:197)
AllButFirst(filenames) == Tail(filenames)

\* the files the removal loop visits, group after group
RECURSIVE ToRemove(_)
ToRemove(groups) ==
    IF groups = <<>>
    THEN <<>>
    ELSE AllButFirst(Head(groups).filenames) \o ToRemove(Tail(groups))

\* a command that deletes in a dry run as well
MutatesAlways(kind, dry_run) == TRUE

\* `if not dry_run:` (BackupOneDrive.py:376, 394); DeduplicateFiles cleans
\* only with --clean, which is the run that is not dry
\* (DeduplicateFiles.py:184)
Mutates(kind, dry_run) == ~dry_run

\* `not any(directory.iterdir())`: no file lies in d, and the directory
\* that lies in d, which is d + 1, does not exist
IsEmptyDir(d, filesNow, dirsNow) ==
    /\ \A p \in DedupPaths : p.dir = d => filesNow[p] = None
    /\ d + 1 \notin dirsNow

\* a visit of the directories in the order os.walk met them
WalkedDirectories(dirsNow) ==
    (IF 0 \in dirsNow THEN <<0>> ELSE <<>>)
    \o (IF 1 \in dirsNow THEN <<1>> ELSE <<>>)
    \o (IF 2 \in dirsNow THEN <<2>> ELSE <<>>)

\* os.walk(output_dir) lists a directory before the directories inside it;
\* reversed(directories) (BackupOneDrive.py:385-390)
ReversedDirectories(dirsNow) ==
    (IF 2 \in dirsNow THEN <<2>> ELSE <<>>)
    \o (IF 1 \in dirsNow THEN <<1>> ELSE <<>>)
    \o (IF 0 \in dirsNow THEN <<0>> ELSE <<>>)

NoRun == [pc |-> "Idle", files |-> <<>>, dirs |-> {}, all_filenames |-> <<>>,
          all_hashes |-> <<>>, duplicates |-> <<>>, printed |-> <<>>,
          todo |-> <<>>, removed |-> <<>>, directories |-> <<>>,
          num_removed |-> 0]

dedupRest == <<tokenVars, runVars, createVars, listVars, planVars, fetchVars,
               givenVars, execVars, commitVars, lastVars, tree0>>

\* the command that runs
Kind == workload.kind

\* a command that visits the duplicates only when it deletes them
EntersLoopWhenReal(kind, dry_run) == ~dry_run

\* RemoveDuplicates visits every duplicate and tests dry_run at the unlink
\* (BackupOneDrive.py:366-377); DeduplicateFiles visits them under
\* `if clean:` (DeduplicateFiles.py:184)
EntersLoop(kind, dry_run) == kind = "RemoveDuplicates" \/ ~dry_run

\* os.walk collects all_filenames; DeduplicateFiles returns when it found
\* none (BackupOneDrive.py:290-299, DeduplicateFiles.py:67-86); the command
\* is run dry first and, when that run is over, for real
Dedup_Walk(dry_run) ==
    /\ runs[dry_run].pc = "Walk"
    /\ dry_run \/ runs[TRUE].pc \in {"Done", "Failed"}
    /\ LET r == runs[dry_run]
           names == WalkFrom(Kind, 0, r.files, r.dirs, tree0.listing)
       IN  runs' = [runs EXCEPT ![dry_run].all_filenames = names,
                                ![dry_run].pc =
                                    IF Kind = "DeduplicateFiles" /\ names = <<>>
                                    THEN "Done" ELSE "Hash"]
    /\ UNCHANGED dedupRest

\* the hash tasks that fail in one run: none, or one of them
FailingTasks == {{}} \cup {{k} : k \in 1..MaxEntries}

\* all_hashes = ExecuteTasks.TransformTasksEx(...): the hash of each file,
\* by position; the tasks in `failed` raise (filename.stat(), filename.open,
\* f.read) and leave no hash at their position (BackupOneDrive.py:303-344,
\* DeduplicateFiles.py:96-146)
Dedup_Hash(dry_run, failed) ==
    /\ runs[dry_run].pc = "Hash"
    /\ failed \subseteq DOMAIN runs[dry_run].all_filenames
    /\ LET r == runs[dry_run]
       IN  runs' = [runs EXCEPT ![dry_run].all_hashes =
                                    [k \in DOMAIN r.all_filenames |->
                                        IF k \in failed
                                        THEN NoResult
                                        ELSE Hash(r.files[r.all_filenames[k]])],
                                ![dry_run].pc = "Organize"]
    /\ UNCHANGED dedupRest

\* a grouping that takes whatever the executor returned
IsInstanceStrUnchecked(hash_value) == TRUE

\* assert isinstance(hash_value, str), hash_value (BackupOneDrive.py:356,
\* DeduplicateFiles.py:152)
IsInstanceStr(hash_value) == hash_value # NoResult

\* a command that goes on when it found no duplicate
ReturnsNever(duplicates) == FALSE

\* `if not duplicates: return` (BackupOneDrive.py:363-364),
\* `if not duplicated_files: return` (DeduplicateFiles.py:164-165)
ReturnsEarly(duplicates) == duplicates = <<>>

\* the files are grouped and the groups of more than one file kept; the
\* assertion in the loop ends the command at the first result that is no
\* hash; the command returns when there is no group; DeduplicateFiles
\* prints the groups when it does not clean (BackupOneDrive.py:346-364,
\* DeduplicateFiles.py:148-184)
Dedup_Organize(dry_run) ==
    /\ runs[dry_run].pc = "Organize"
    /\ LET r == runs[dry_run]
           dups == Duplicates(OrganizeFrom(Kind, r.all_filenames,
                                           r.all_hashes, 1, <<>>))
           clean == ~dry_run
           loops == EntersLoop(Kind, dry_run)
       IN  IF \E k \in DOMAIN r.all_hashes : ~IsInstanceStr(r.all_hashes[k])
           THEN runs' = [runs EXCEPT ![dry_run].pc = "Failed"]
           ELSE runs' = [runs EXCEPT
                       ![dry_run].duplicates = dups,
                       ![dry_run].printed =
                           IF Kind = "DeduplicateFiles" /\ ~clean
                           THEN dups ELSE <<>>,
                       ![dry_run].todo =
                           IF loops THEN ToRemove(dups) ELSE <<>>,
                       ![dry_run].pc =
                           IF ReturnsEarly(dups) THEN "Done"
                           ELSE IF loops THEN "Remove" ELSE "Done"]
    /\ UNCHANGED dedupRest

\* one turn of the inner loop: "Removing '{filename}'..." and, unless the
\* run is dry, filename.unlink() (BackupOneDrive.py:372-377,
\* DeduplicateFiles.py:197-200)
Dedup_Remove(dry_run) ==
    /\ runs[dry_run].pc = "Remove"
    /\ runs[dry_run].todo # <<>>
    /\ LET r == runs[dry_run]
           filename == Head(r.todo)
       IN  runs' = [runs EXCEPT
                       ![dry_run].todo = Tail(r.todo),
                       ![dry_run].removed = Append(r.removed, filename),
                       ![dry_run].files =
                           IF Mutates(Kind, dry_run)
                           THEN [r.files EXCEPT ![filename] = None]
                           ELSE r.files]
    /\ UNCHANGED dedupRest

\* the loops are over: DeduplicateFiles is done, RemoveDuplicates walks the
\* directories (BackupOneDrive.py:379-388)
Dedup_Removed(dry_run) ==
    /\ runs[dry_run].pc = "Remove"
    /\ runs[dry_run].todo = <<>>
    /\ runs' = [runs EXCEPT
                   ![dry_run].directories =
                       IF Kind = "RemoveDuplicates"
                       THEN ReversedDirectories(runs[dry_run].dirs)
                       ELSE <<>>,
                   ![dry_run].pc =
                       IF Kind = "RemoveDuplicates" THEN "Directories"
                                                    ELSE "Done"]
    /\ UNCHANGED dedupRest

\* for directory in reversed(directories): an empty directory is counted
\* and, unless the run is dry, removed (BackupOneDrive.py:390-395)
Dedup_Rmdir(dry_run) ==
    /\ runs[dry_run].pc = "Directories"
    /\ runs[dry_run].directories # <<>>
    /\ LET r == runs[dry_run]
           directory == Head(r.directories)
           empty == IsEmptyDir(directory, r.files, r.dirs)
       IN  runs' = [runs EXCEPT
                       ![dry_run].directories = Tail(r.directories),
                       ![dry_run].num_removed =
                           IF empty THEN r.num_removed + 1 ELSE r.num_removed,
                       ![dry_run].dirs =
                           IF empty /\ Mutates(Kind, dry_run)
                           THEN r.dirs \ {directory} ELSE r.dirs]
    /\ UNCHANGED dedupRest

\* RemoveDuplicates returns
Dedup_Return(dry_run) ==
    /\ runs[dry_run].pc = "Directories"
    /\ runs[dry_run].directories = <<>>
    /\ runs' = [runs EXCEPT ![dry_run].pc = "Done"]
    /\ UNCHANGED dedupRest

InitDedup ==
    /\ refresh_token \in {1}
    /\ data_file = FileHolding(refresh_token)
    /\ IdleToken
    /\ IdleBackup
    /\ IdleGiven
    /\ workload \in [kind : {"RemoveDuplicates", "DeduplicateFiles"},
                     ssd : {FALSE}]
    /\ contents = <<>>
    /\ etasks = <<>>
    /\ finished = <<>>
    /\ all_results = <<>>
    /\ pairs = {}
    /\ IdleCommit
    /\ IdleLast
    /\ tree0 \in Trees
    /\ runs = [dry_run \in BOOLEAN |->
                  [NoRun EXCEPT !.pc = "Walk", !.files = tree0.files,
                                !.dirs = tree0.dirs]]

NextDedup ==
    \/ \E dry_run \in BOOLEAN : Dedup_Walk(dry_run)
    \/ \E dry_run \in BOOLEAN, failed \in FailingTasks :
          Dedup_Hash(dry_run, failed)
    \/ \E dry_run \in BOOLEAN : Dedup_Organize(dry_run)
    \/ \E dry_run \in BOOLEAN : Dedup_Remove(dry_run)
    \/ \E dry_run \in BOOLEAN : Dedup_Removed(dry_run)
    \/ \E dry_run \in BOOLEAN : Dedup_Rmdir(dry_run)
    \/ \E dry_run \in BOOLEAN : Dedup_Return(dry_run)

SpecDedup == InitDedup /\ [][NextDedup]_vars

-----------------------------------------------------------------------------
(* One run of the Backup command                                           *)

\* what local storage may hold when the run starts
LocalTrees ==
    {{}, {Dest(ItemOf(1), FileProcessors(TRUE, TRUE)[1])}}

InitBackup ==
    /\ refresh_token = None
    /\ data_file \in {NoFile} \cup [token : {1}, newline : BOOLEAN]
    /\ IdleToken
    /\ pc = "Create"
    /\ IdleRun
    /\ force_oauth \in BOOLEAN
    /\ file0 = data_file
    /\ listener = "none"
    /\ events = <<>>
    /\ auth_token = None
    /\ exchanged = NoExchange
    /\ writes = 0
    /\ created = FALSE
    /\ remote \in RemoteTrees
    /\ to_search = <<>>
    /\ files = <<>>
    /\ file_infos = <<>>
    /\ listed = FALSE
    /\ list_requests = 0
    /\ last_page = NoPage
    /\ IdlePlan
    /\ tasks = <<>>
    /\ local \in LocalTrees
    /\ local0 = local
    /\ IdleGiven
    /\ IdleExec
    /\ IdleLater

NextBackup ==
    \/ Create_Start
    \/ Create_Listen
    \/ Create_ListenRaises
    \/ Create_Browser
    \/ \E c \in AuthCodes : Create_WaitCode(c)
    \/ Create_WaitNoCode
    \/ Create_WaitTimeout
    \/ \E resp \in ExchangeOutcomes : Create_Exchange(resp)
    \/ Create_Persist
    \/ Backup_GetToken
    \/ Backup_GetTokenRaises
    \/ \E e \in {NoEmail, "mail"}, r \in Profiles : Backup_Profile(e, r)
    \/ Backup_ProfileRaises
    \/ List_Step
    \/ List_HttpError
    \/ List_Return
    \/ \E pictures \in BOOLEAN, videos \in BOOLEAN : Backup_Plan(pictures, videos)
    \/ Process_Submit
    \/ \E i \in DOMAIN tasks : Task_Succeeds(i)
    \/ \E i \in DOMAIN tasks : Task_Fails(i)
    \/ Process_Return

SpecBackup == InitBackup /\ [][NextBackup]_vars

-----------------------------------------------------------------------------
(* Properties of _Token.Create, checked under SpecBackup                   *)

IsPrefix(s, t) ==
    /\ Len(s) <= Len(t)
    /\ \A i \in 1..Len(s) : s[i] = t[i]

InteractiveOrder == <<"listening", "browser", "code", "exchanged", "written">>

\* C4: when a persisted refresh-token file exists and force_oauth is false,
\* the persisted token (stripped) is the refresh token and no interactive
\* step happens: no listener, no browser, no code exchange, no write.
C4_PersistedTokenSkipsInteractive ==
    (file0 # NoFile /\ ~force_oauth) =>
        /\ events = <<>>
        /\ listener = "none"
        /\ auth_token = None
        /\ exchanged = NoExchange
        /\ writes = 0
        /\ data_file = file0
        /\ pc # "Create" => (created /\ refresh_token = file0.token)

\* a run that reused a persisted token followed by white space, to its end
C4_Witness ==
    /\ file0 # NoFile
    /\ file0.newline
    /\ ~force_oauth
    /\ created
    /\ refresh_token = 1
    /\ pc = "Done"

\* C5: without a persisted token, or with force_oauth, the interactive
\* steps happen in this order: listener listening, browser opened, code
\* received, code exchanged, file written; the file is written once per
\* acquisition, never before the exchange returned a refresh token, and it
\* then holds that token.
C5_InteractiveStepsInOrder ==
    /\ IsPrefix(events, InteractiveOrder)
    /\ writes = (IF Len(events) = Len(InteractiveOrder) THEN 1 ELSE 0)
    /\ writes = 1 =>
        /\ exchanged.status = "ok"
        /\ data_file = FileHolding(exchanged.token)
        /\ refresh_token = exchanged.token
    /\ (created /\ (file0 = NoFile \/ force_oauth)) => events = InteractiveOrder
    /\ (file0 = NoFile \/ force_oauth) /\ writes = 0 => data_file = file0

\* a forced interactive acquisition that replaced the persisted token
C5_Witness ==
    /\ force_oauth
    /\ file0 # NoFile
    /\ created
    /\ events = InteractiveOrder
    /\ data_file.token = 2
    /\ file0.token = 1

\* C7: if the code exchange raises or its response carries no refresh
\* token, Create fails: no _Token is returned, the file is exactly as it
\* was, and no later phase (profile, listing, planning, download) runs.
C7_FailedExchangeEndsRun ==
    exchanged.status \in {"raises", "no_key", "null"} =>
        /\ pc = "Failed"
        /\ failure \in {"exchange", "no_refresh_token"}
        /\ ~created
        /\ refresh_token = None
        /\ writes = 0
        /\ data_file = file0
        /\ phases = {}
        /\ list_requests = 0
        /\ tasks = <<>>
        /\ local = local0

\* a forced acquisition over an existing file whose exchange answered
\* without a refresh token
C7_Witness ==
    /\ exchanged.status = "no_key"
    /\ force_oauth
    /\ file0 # NoFile
    /\ events = <<"listening", "browser", "code">>

-----------------------------------------------------------------------------
(* Properties of _GetFileInfos                                             *)

Range(s) == {s[i] : i \in DOMAIN s}

\* C8 (SpecListing): for every tree and paging, the traversal sends at
\* most one request per page, can always take its next step, and returns
\* with an empty worklist and every file of the tree exactly once.
C8_ListingReturnsEveryFileOnce ==
    /\ list_requests <= NumPages(remote)
    /\ pc = "List" => ENABLED NextListing
    /\ listed =>
        /\ to_search = <<>>
        /\ Range(file_infos) = RemoteFiles(remote)
        /\ Len(file_infos) = Cardinality(RemoteFiles(remote))

\* a listing that returned all files of a tree with nested folders, split
\* into one-entry pages
C8_Witness ==
    /\ listed
    /\ Len(file_infos) = MaxFiles
    /\ remote.page = 1
    /\ \E i \in Subfolders : remote.parent[i] # 0
    /\ list_requests = NumPages(remote)
    /\ list_requests >= 4

\* C9 (SpecBackup): a failed listing request ends the run: the files found
\* so far are not returned, nothing is planned, no download task is
\* submitted and local storage is as it was.
C9_ListingErrorAbortsRun ==
    failure = "listing_http" =>
        /\ pc = "Failed"
        /\ ~listed
        /\ file_infos = <<>>
        /\ phases \cap {"planning", "download"} = {}
        /\ files_to_process = <<>>
        /\ tasks = <<>>
        /\ local = local0

\* a listing that had found a file when a later request failed
C9_Witness ==
    /\ failure = "listing_http"
    /\ Len(files) >= 1
    /\ list_requests >= 2

HasOther(page) == \E i \in DOMAIN page.value : page.value[i].kind = "other"

\* C10 (SpecBackup): a page holding an entry that is neither folder nor
\* file ends the traversal with an assertion failure at that entry: no
\* catalog is returned or planned, and no further listing request is sent.
C10_UnknownEntryAbortsTraversal ==
    /\ [](HasOther(last_page) =>
            /\ failure = "listing_assert"
            /\ pc = "Failed"
            /\ ~listed
            /\ file_infos = <<>>
            /\ phases \cap {"planning", "download"} = {})
    /\ [][failure = "listing_assert" => list_requests' = list_requests]_vars

\* the traversal ended at such an entry while folders were still waiting
C10_Witness ==
    /\ failure = "listing_assert"
    /\ HasOther(last_page)
    /\ to_search # <<>>
    /\ list_requests >= 2

\* the listing, planning and download steps of a run
LaterPhases == {"listing", "planning", "download"}

\* the recorded profile answer is the expected identity
ProfileVerified ==
    /\ profile # NoProfile
    /\ profile.displayName = "user"
    /\ profile.expected_email # NoEmail => profile.mail = profile.expected_email

\* C11: no listing request is sent unless the profile request succeeded
\* with the expected display name and, when an email is expected, the
\* expected mail; on a mismatch the run has ended with an error and no
\* listing, planning or download step has happened.
C11_NoListingBeforeIdentityVerified ==
    /\ (list_requests > 0 \/ phases \cap LaterPhases # {}) => ProfileVerified
    /\ (profile # NoProfile /\ ~ProfileVerified) =>
          /\ pc = "Done"
          /\ dm_result # 0
          /\ list_requests = 0
          /\ phases \cap LaterPhases = {}
          /\ files_to_process = <<>>
          /\ tasks = <<>>
    /\ failure = "profile" => list_requests = 0 /\ phases \cap LaterPhases = {}

\* the display name is the expected one, the mail is not, and the run is over
C11_Witness ==
    /\ profile.displayName = "user"
    /\ profile.expected_email # NoEmail
    /\ profile.mail # profile.expected_email
    /\ pc = "Done"
    /\ dm_result # 0

\* the catalog without the items reported as planning errors
WithoutErrors == SelectSeq(file_infos, LAMBDA f : f \notin plan_errors)

\* C13, as claimed (SpecBackup): a planning error is not fatal: the run
\* goes on and every item that was planned is submitted for download.
C13_PlanningErrorKeepsRunGoing ==
    (pc = "Done" /\ failure = "none" /\ plan_errors # {}) =>
        Len(tasks) = Len(files_to_process)

\* C13, as amended: a planning error excludes its item and planning goes
\* on with the remaining items, which are planned as if the item were not
\* there; but the command returns after planning with a non-zero result
\* and no download task is submitted in that run.
C13_PlanningErrorEndsRunAfterPlanning ==
    plan_errors # {} =>
        /\ \A k \in DOMAIN files_to_process :
              files_to_process[k].file \notin plan_errors
        /\ files_to_process =
              GetFilesToProcess(WithoutErrors, rules.pictures, rules.videos,
                                local).plan
        /\ pc = "Done"
        /\ dm_result # 0
        /\ tasks = <<>>
        /\ "download" \notin phases
        /\ local = local0

\* a catalog with an unrecognised item and an item that was planned
C13_Witness ==
    /\ plan_errors # {}
    /\ files_to_process # <<>>
    /\ pc = "Done"

-----------------------------------------------------------------------------
(* Properties of _GetFilesToProcess, checked under SpecPlanner             *)

\* the first rule, in rule order, whose kind tag is a field of the item
RECURSIVE FirstTagged(_, _)
FirstTagged(item, processors) ==
    IF processors = <<>> THEN NoProcessor
    ELSE IF Head(processors).tag \in item.markers THEN Head(processors)
    ELSE FirstTagged(item, Tail(processors))

\* the first rule, in rule order, whose extension set holds the extension
RECURSIVE FirstByExtension(_, _)
FirstByExtension(item, processors) ==
    IF processors = <<>> THEN NoProcessor
    ELSE IF item.ext \in Head(processors).file_types THEN Head(processors)
    ELSE FirstByExtension(item, Tail(processors))

\* the rule of an item when tags are looked at before any extension
TagThenExtension(item, processors) ==
    IF FirstTagged(item, processors) # NoProcessor
    THEN FirstTagged(item, processors)
    ELSE FirstByExtension(item, processors)

\* the planner has run once (and only once)
FirstPlanMade == "planning" \in phases /\ pc \in {"Process", "Done"}

\* C12: every item that is not ignored goes to the first rule whose kind
\* tag the item carries, and to the first rule whose extension set holds
\* its extension only when it carries no rule's tag; so an item with the
\* 'video' marker goes to the video rule whatever its extension.
C12_TagBeforeExtension ==
    FirstPlanMade =>
        /\ \A k \in DOMAIN files_to_process :
              files_to_process[k].dest.subdir =
                  TagThenExtension(ItemOf(files_to_process[k].file),
                                   FileProcessors(rules.pictures, rules.videos)).subdir
        /\ \A f \in plan_errors :
              TagThenExtension(ItemOf(f),
                               FileProcessors(rules.pictures, rules.videos))
                  = NoProcessor

\* C14: an item with the extension '.thm' is never planned and never
\* reported as a planning error, whichever rules are configured and
\* whatever markers the item carries.
C14_IgnoredExtensionNeverPlanned ==
    "planning" \in phases =>
        /\ \A k \in DOMAIN files_to_process :
              ItemOf(files_to_process[k].file).ext # ".thm"
        /\ \A f \in plan_errors : ItemOf(f).ext # ".thm"

\* a '.thm' item carrying the marker of a configured rule has been through
\* the planner, next to an item that was planned
C14_Witness ==
    /\ FirstPlanMade
    /\ \E i \in DOMAIN file_infos :
          /\ ItemOf(file_infos[i]).ext = ".thm"
          /\ \E p \in {"image", "video"} :
                /\ p \in ItemOf(file_infos[i]).markers
                /\ rules[IF p = "image" THEN "pictures" ELSE "videos"]
    /\ files_to_process # <<>>

\* every task of the first run committed its file
AllCommitted == tasks # <<>> /\ \A i \in DOMAIN tasks : tasks[i] = "done"

\* C15: after a run in which every planned item was committed, planning
\* the same unchanged catalog again plans nothing: every destination
\* exists and is skipped.
C15_ReplanAfterFullCommitPlansNothing ==
    (pc = "Replanned" /\ AllCommitted) => files_to_process = <<>>

\* two files were planned and committed, and the second planning is over
C15_Witness ==
    /\ pc = "Replanned"
    /\ AllCommitted
    /\ Len(tasks) = 2
    /\ local # local0
    /\ files_to_process = <<>>

-----------------------------------------------------------------------------
(* Properties of the task executor and its callers, under SpecExecutor     *)

\* C16: a task that fails is recorded as that task's failure only: no
\* other task changes with it, every task that was started can go on to
\* its end and a waiting task is started even after failures, and the
\* executor does not return before every task has finished.
C16_FailureStaysWithItsTask ==
    /\ [](/\ pc # "Execute" => \A i \in DOMAIN etasks : Finished(i)
          /\ \A i \in DOMAIN etasks :
                /\ Finished(i) <=> i \in Range(finished)
                /\ etasks[i].state \in {"preparing", "running"} =>
                      ENABLED (Exec_Prepare(i) \/ Exec_Chunk(i) \/ Exec_Finish(i))
          /\ (pc = "Execute" /\ Active = {}
                /\ \E i \in DOMAIN etasks : etasks[i].state = "queued") =>
                ENABLED (\E i \in DOMAIN etasks : Exec_Start(i)))
    /\ [][\A i \in DOMAIN etasks :
            /\ (etasks'[i].state = "failed" /\ etasks[i].state # "failed") =>
                  \A j \in DOMAIN etasks \ {i} : etasks'[j] = etasks[j]
            /\ Finished(i) => etasks'[i] = etasks[i]]_vars

\* a download failed first; its sibling then ran to its end
C16_Witness ==
    /\ workload.kind = "Backup"
    /\ pc = "Done"
    /\ finished = <<1, 2>>
    /\ etasks[1].state = "failed"
    /\ etasks[2].state = "done"
    /\ etasks[2].progress > ChunkSize

\* C17: whatever order the tasks finish in, result i of the executor is
\* the result of task i, and the callers' zip of the file list with the
\* result list gives every file the hash of its own bytes.
C17_ResultsArePositional ==
    /\ all_results # <<>> =>
          \A i \in DOMAIN etasks :
              etasks[i].state = "done" /\ workload.kind # "Backup" =>
                  all_results[i] = Hash(contents[i].body)
    /\ (pc = "Done" /\ workload.kind # "Backup") =>
          pairs = {<<i, Hash(contents[i].body)>> : i \in DOMAIN contents}

\* two files of different content were hashed and the second finished first
C17_Witness ==
    /\ workload.kind # "Backup"
    /\ pc = "Done"
    /\ finished = <<2, 1>>
    /\ contents[1].body # contents[2].body
    /\ Cardinality(pairs) = 2

\* C18: without the ssd flag at most one hash task is being prepared or
\* executed at any moment; with it a waiting task is started while others
\* are running.
C18_SerialUnlessSsd ==
    workload.kind \in {"RemoveDuplicates", "DeduplicateFiles"} =>
        /\ ~workload.ssd => Cardinality(Active) <= 1
        /\ (workload.ssd /\ pc = "Execute"
              /\ \E i \in DOMAIN etasks : etasks[i].state = "queued") =>
              ENABLED (\E i \in DOMAIN etasks : Exec_Start(i))

\* without the flag the second task waits while the first is executed
C18_Witness ==
    /\ workload.kind = "RemoveDuplicates"
    /\ ~workload.ssd
    /\ etasks[1].state = "running"
    /\ etasks[1].progress > 0
    /\ Len(etasks) = 2
    /\ etasks[2].state = "queued"

\* C19: every weight a Prepare function hands to the executor is at least
\* 1, for hash tasks and download tasks alike.
C19_WeightAtLeastOne ==
    \A i \in DOMAIN etasks : etasks[i].weight # None => etasks[i].weight >= 1

\* progress and weight summed over the tasks (a task that is not prepared
\* yet has no weight and counts for nothing)
RECURSIVE TotalProgress(_)
TotalProgress(ts) ==
    IF ts = <<>> THEN 0 ELSE Head(ts).progress + TotalProgress(Tail(ts))

RECURSIVE TotalWeight(_)
TotalWeight(ts) ==
    IF ts = <<>> THEN 0
    ELSE (IF Head(ts).weight = None THEN 0 ELSE Head(ts).weight)
         + TotalWeight(Tail(ts))

ProgressNeverDecreases ==
    \A i \in DOMAIN etasks : etasks'[i].progress >= etasks[i].progress

HashOfUnchangedFileEndsAtSize ==
    \A i \in DOMAIN etasks :
        (/\ workload.kind # "Backup"
         /\ etasks[i].state = "done"
         /\ contents[i].body = contents[i].size) =>
            etasks[i].progress = contents[i].size

\* the task is given no more bytes than its Prepare measured
WithinMeasure(i) == contents[i].body <= contents[i].size

\* C20, as claimed: the progress a task reports never decreases and never
\* exceeds the task's weight, so the sum of the progress never decreases
\* and never exceeds the sum of the weights; a hash task over an unchanged
\* file ends with progress equal to the file's size.
C20_ProgressWithinWeight ==
    /\ [](/\ \A i \in DOMAIN etasks :
                etasks[i].weight # None => etasks[i].progress <= etasks[i].weight
          /\ TotalProgress(etasks) <= TotalWeight(etasks)
          /\ HashOfUnchangedFileEndsAtSize)
    /\ [][/\ ProgressNeverDecreases
          /\ TotalProgress(etasks') >= TotalProgress(etasks)]_vars

\* C20, as amended: the progress a task reports never decreases; it stays
\* within the task's weight when the task is given no more bytes than its
\* Prepare measured, and the sum stays within the sum of the weights when
\* that is so for every task; a hash task over an unchanged file ends with
\* progress equal to the file's size.
C20_ProgressWithinWeightWhenWithinMeasure ==
    /\ [](/\ \A i \in DOMAIN etasks :
                (etasks[i].weight # None /\ WithinMeasure(i)) =>
                    etasks[i].progress <= etasks[i].weight
          /\ (\A i \in DOMAIN etasks : WithinMeasure(i)) =>
                TotalProgress(etasks) <= TotalWeight(etasks)
          /\ HashOfUnchangedFileEndsAtSize)
    /\ [][/\ ProgressNeverDecreases
          /\ TotalProgress(etasks') >= TotalProgress(etasks)]_vars

\* two unchanged files of more than a chunk are hashed at the same time,
\* and the first has reached its size
C20_Witness ==
    /\ workload.kind = "RemoveDuplicates"
    /\ workload.ssd
    /\ Len(etasks) = 2
    /\ \A i \in DOMAIN etasks :
          contents[i] = [size |-> ChunkSize + 1, body |-> ChunkSize + 1]
    /\ etasks[1].state = "done"
    /\ etasks[1].progress = ChunkSize + 1
    /\ etasks[2].state = "running"
    /\ etasks[2].progress = ChunkSize

-----------------------------------------------------------------------------
(* Properties of the commit of a downloaded file, checked under SpecCommit *)

\* the task is past the directory step of its commit
PastMkdir(i) ==
    \/ fetch[i].pc \in {"unlink_temp", "move_temp", "copying", "unlink_dest",
                        "move_dest", "done"}
    \/ fetch[i].raised = "FileNotFoundError"

\* C21: the directory of the destination is created under mkdir_lock by a
\* creation that accepts a directory that exists: at most one task is
\* inside the locked statement, no task fails because the directory was
\* created by another task first, and every task that is past the step
\* finds the directory of its destination in place.
C21_RacingDirectoryCreatorsDoNotFail ==
    \A i \in DOMAIN fetch :
        /\ fetch[i].raised # "FileExistsError"
        /\ fetch[i].pc = "mkdir" <=> mkdir_lock = i
        /\ PastMkdir(i) => Parent(files_to_process[i].dest) \in disk.dirs

\* a task holds the lock for a directory that another task, which had
\* also found it missing, has created in the meantime
C21_Witness ==
    \E i, j \in DOMAIN fetch :
        /\ i # j
        /\ Parent(files_to_process[i].dest) = Parent(files_to_process[j].dest)
        /\ fetch[i].pc = "mkdir"
        /\ Parent(files_to_process[i].dest) \in disk.dirs
        /\ PastMkdir(j)

\* C22: whatever the tasks have done so far, and wherever the process was
\* killed, each destination either does not exist or holds every byte of a
\* downloaded file.
C22_DestinationAbsentOrComplete ==
    \A d \in AllDests :
        disk.files[PathOf(d)].state \in {"absent", "complete"}

\* no other task of the run commits to the destination of task i
Alone(i) ==
    \A j \in DOMAIN fetch :
        j # i => files_to_process[j].dest # files_to_process[i].dest

CommitErrors == {"FileExistsError", "FileNotFoundError"}

\* C23: in a run that follows a killed or finished run, the commit of a
\* file that was planned again never raises over what the earlier run left
\* (a '.tmp' sibling, whole or cut short, or nothing at all), and when the
\* task is done the destination holds every byte of that file; this is the
\* commit of one file run again, so the task is the only one of its run on
\* that destination.
C23_RerunCommitsOverWhatWasLeft ==
    attempt > 1 =>
        \A i \in DOMAIN fetch :
            Alone(i) =>
                /\ fetch[i].raised \notin CommitErrors
                /\ fetch[i].pc = "done" =>
                      disk.files[PathOf(files_to_process[i].dest)]
                          = Complete(files_to_process[i].file)

\* a task of the second run is done after it removed the '.tmp' sibling
\* that the killed first run had left
C23_Witness ==
    /\ attempt = 2
    /\ \E i \in DOMAIN fetch :
          /\ Alone(i)
          /\ fetch[i].stale
          /\ fetch[i].pc = "done"
          /\ disk.files[PathOf(files_to_process[i].dest)]
                = Complete(files_to_process[i].file)

\* every task of the run that has just returned is done
AllFetched ==
    /\ pc = "Done"
    /\ fetch # <<>>
    /\ \A i \in DOMAIN fetch : fetch[i].pc = "done"

Requested(i) == fetch[i].headers # NoHeaders

\* the request carries the value as its only credential, and the token
\* manager was not asked for the OAuth token
SentTempAuthOnly(i, value) ==
    /\ fetch[i].headers = [name |-> "Bearer", value |-> value]
    /\ ~fetch[i].asked

\* the request carries the OAuth bearer token, asked of the token manager
SentOAuthOnly(i) ==
    /\ fetch[i].headers = GetHeaders
    /\ fetch[i].asked

-----------------------------------------------------------------------------
(* Properties of RemoveDuplicates and DeduplicateFiles, under SpecDedup     *)

\* the files of the tree the command was given
Present == {p \in DedupPaths : tree0.files[p] # None}

\* the hash of what file p held when the command started
HashOf(p) == Hash(tree0.files[p])

\* the run has grouped its files
Organized(r) == r.pc \in {"Remove", "Directories", "Done"}

\* p and q are members of one duplicate group of run r
InGroup(r, p, q) ==
    \E k \in DOMAIN r.duplicates :
        {p, q} \subseteq Range(r.duplicates[k].filenames)

\* the groups of run r hold more than one file each and share no file
WellGrouped(r) ==
    /\ \A k \in DOMAIN r.duplicates :
          /\ Len(r.duplicates[k].filenames) > 1
          /\ \A a, b \in DOMAIN r.duplicates[k].filenames :
                a # b => r.duplicates[k].filenames[a]
                            # r.duplicates[k].filenames[b]
    /\ \A k, l \in DOMAIN r.duplicates :
          k # l => Range(r.duplicates[k].filenames)
                      \cap Range(r.duplicates[l].filenames) = {}

\* C26: RemoveDuplicates files by the hash alone: two files of the tree
\* are in one duplicate group exactly when their hashes are equal, whatever
\* their names and directories, so that the groups are the hash classes of
\* more than one file.
C26_RemoveDuplicatesGroupsByHashAlone ==
    Kind = "RemoveDuplicates" =>
        \A dry_run \in BOOLEAN :
            LET r == runs[dry_run]
            IN  Organized(r) =>
                    /\ WellGrouped(r)
                    /\ \A p, q \in Present :
                          p # q => (InGroup(r, p, q) <=> HashOf(p) = HashOf(q))

\* A.jpg, B.jpg and the A.jpg of the other directory hold the same bytes
\* and make one group of three
C26_Witness ==
    /\ Kind = "RemoveDuplicates"
    /\ Organized(runs[TRUE])
    /\ Len(runs[TRUE].duplicates) = 1
    /\ Range(runs[TRUE].duplicates[1].filenames)
          = {[dir |-> 0, name |-> "A.jpg"], [dir |-> 0, name |-> "B.jpg"],
             [dir |-> 1, name |-> "A.jpg"]}

\* C27: DeduplicateFiles files by the pair of name and hash: two files of
\* the directory are in one duplicate group exactly when they have the same
\* name and the same hash.
C27_DeduplicateFilesGroupsByNameAndHash ==
    Kind = "DeduplicateFiles" =>
        \A dry_run \in BOOLEAN :
            LET r == runs[dry_run]
            IN  Organized(r) =>
                    \A p, q \in Present :
                        p # q => (InGroup(r, p, q)
                                    <=> /\ p.name = q.name
                                        /\ HashOf(p) = HashOf(q))

\* the files DeduplicateFiles does not leave out: those that hold a byte
NonEmpty == {p \in Present : tree0.files[p] # 0}

\* C27, amended: two files that are not empty are in one duplicate group
\* exactly when they have the same name and the same hash; a file of
\* another name is never removed for them, and an empty file is in no
\* group and is never removed.
C27_DeduplicateFilesGroupsNonEmptyByNameAndHash ==
    Kind = "DeduplicateFiles" =>
        \A dry_run \in BOOLEAN :
            LET r == runs[dry_run]
            IN  /\ Organized(r) =>
                      /\ WellGrouped(r)
                      /\ \A p, q \in NonEmpty :
                            p # q => (InGroup(r, p, q)
                                        <=> /\ p.name = q.name
                                            /\ HashOf(p) = HashOf(q))
                      /\ \A p \in Present \ NonEmpty, q \in Present :
                            ~InGroup(r, p, q)
                /\ \A p \in Present :
                      r.files[p] = None =>
                          \E q \in NonEmpty :
                              /\ r.files[q] # None
                              /\ q.name = p.name
                              /\ HashOf(q) = HashOf(p)

\* the two A.jpg are cleaned down to one while B.jpg, which holds the same
\* bytes, is in no group and stays
C27_Witness ==
    /\ Kind = "DeduplicateFiles"
    /\ runs[FALSE].pc = "Done"
    /\ HashOf([dir |-> 0, name |-> "B.jpg"]) = HashOf([dir |-> 0, name |-> "A.jpg"])
    /\ tree0.files[[dir |-> 0, name |-> "B.jpg"]] \notin {None, 0}
    /\ Len(runs[FALSE].duplicates) = 1
    /\ Range(runs[FALSE].duplicates[1].filenames)
          = {[dir |-> 0, name |-> "A.jpg"], [dir |-> 1, name |-> "A.jpg"]}
    /\ runs[FALSE].files[[dir |-> 0, name |-> "B.jpg"]] # None
    /\ runs[FALSE].removed # <<>>

\* the members of group g that run r has left in place
Survivors(r, g) == {p \in Range(g.filenames) : r.files[p] # None}

\* the place of file p in the order the run walked the tree in
RECURSIVE IndexIn(_, _)
IndexIn(names, p) ==
    IF names = <<>> THEN 1
    ELSE IF Head(names) = p THEN 1
    ELSE 1 + IndexIn(Tail(names), p)

\* the real run has cleaned and has returned
Cleaned == runs[FALSE].pc = "Done" /\ runs[FALSE].duplicates # <<>>

\* C28: when a run that is not dry has returned, of every duplicate group
\* exactly one file is left and it is the member the walk met first; every
\* file that was removed has a file left that was filed under the same
\* key; a file in no group is still there; and no file holds other bytes
\* than before.
C28_CleanupKeepsTheFirstOfEachGroup ==
    Cleaned =>
        LET r == runs[FALSE]
            grouped == UNION {Range(r.duplicates[k].filenames) :
                                k \in DOMAIN r.duplicates}
        IN  /\ \A k \in DOMAIN r.duplicates :
                  LET g == r.duplicates[k]
                  IN  /\ Survivors(r, g) = {g.filenames[1]}
                      /\ \A p \in Range(g.filenames) :
                            IndexIn(r.all_filenames, g.filenames[1])
                                <= IndexIn(r.all_filenames, p)
            /\ \A p \in Present :
                  r.files[p] = None =>
                      \E q \in Present :
                          /\ r.files[q] # None
                          /\ Key(Kind, q, HashOf(q)) = Key(Kind, p, HashOf(p))
            /\ \A p \in Present \ grouped : r.files[p] = tree0.files[p]
            /\ \A p \in DedupPaths :
                  r.files[p] # None => r.files[p] = tree0.files[p]

\* a group of three files has been cleaned down to its first member
C28_Witness ==
    /\ Cleaned
    /\ \E k \in DOMAIN runs[FALSE].duplicates :
          /\ Len(runs[FALSE].duplicates[k].filenames) = 3
          /\ Survivors(runs[FALSE], runs[FALSE].duplicates[k])
                = {runs[FALSE].duplicates[k].filenames[1]}
    /\ Len(runs[FALSE].removed) = 2

\* C29: a dry run changes nothing: at every step of RemoveDuplicates with
\* dry_run set, and of DeduplicateFiles without --clean, the files and the
\* directories are those the command was given.
C29_DryRunMutatesNothing ==
    /\ runs[TRUE].files = tree0.files
    /\ runs[TRUE].dirs = tree0.dirs

\* a dry run of RemoveDuplicates has visited a duplicate and counted an
\* empty directory, and has returned
C29_Witness ==
    /\ Kind = "RemoveDuplicates"
    /\ runs[TRUE].pc = "Done"
    /\ runs[TRUE].removed # <<>>
    /\ runs[TRUE].num_removed > 0
    /\ runs[TRUE].files = tree0.files

\* both runs of the command have returned
BothDone == runs[TRUE].pc = "Done" /\ runs[FALSE].pc = "Done"

\* the two runs found the same groups and, for RemoveDuplicates, named the
\* same files as removed
SameGroups ==
    /\ runs[TRUE].duplicates = runs[FALSE].duplicates
    /\ Kind = "RemoveDuplicates" => runs[TRUE].removed = runs[FALSE].removed

\* what the real run has deleted is what it named, and nothing else differs
\* between the trees of the two runs
DiffersByDeletion ==
    /\ runs[FALSE].files =
          [p \in DedupPaths |->
              IF p \in Range(runs[FALSE].removed)
              THEN None ELSE runs[TRUE].files[p]]
    /\ runs[FALSE].dirs \subseteq runs[TRUE].dirs
    /\ Cardinality(runs[TRUE].dirs \ runs[FALSE].dirs)
          = runs[FALSE].num_removed

-----------------------------------------------------------------------------
(* Properties of the removal of the empty directories, under SpecDedup      *)

\* the real run of RemoveDuplicates has removed a file and has returned
RealRunRemoved ==
    /\ Kind = "RemoveDuplicates"
    /\ runs[FALSE].pc = "Done"
    /\ runs[FALSE].removed # <<>>

\* C31: when a real run of RemoveDuplicates that removed files has
\* returned, no directory of the tree is empty; and the directories are
\* visited bottom-up, every directory after the directories inside it, so
\* that a directory whose only entry was a directory the pass removed is
\* removed by the same pass.
C31_NoDirectoryLeftEmpty ==
    /\ RealRunRemoved =>
          \A d \in runs[FALSE].dirs :
              ~IsEmptyDir(d, runs[FALSE].files, runs[FALSE].dirs)
    /\ \A dry_run \in DOMAIN runs :
          LET ds == runs[dry_run].directories
          IN  \A a, b \in DOMAIN ds : a < b => ds[a] > ds[b]

\* directory 1 held nothing but directory 2, whose files were duplicates of
\* files of directory 0: both directories are gone
C31_Witness ==
    /\ RealRunRemoved
    /\ tree0.dirs = {0, 1, 2}
    /\ \A p \in DedupPaths : p.dir = 1 => tree0.files[p] = None
    /\ runs[FALSE].dirs = {0}
    /\ runs[FALSE].num_removed = 2

\* C36: on the same tree the dry run of RemoveDuplicates reports as many
\* removed directories as the real run (the statement of the claim; it
\* fails for a directory that is empty only once the duplicates are gone,
\* which the dry run finds still holding its files).
C36_DryRunCountsTheSameDirectories ==
    (Kind = "RemoveDuplicates" /\ BothDone) =>
        runs[TRUE].num_removed = runs[FALSE].num_removed

\* a hash task of run r has failed
HashFailed(r) == \E k \in DOMAIN r.all_hashes : r.all_hashes[k] = NoResult

\* C38: a run in which a hash task failed ends at the assertion of the
\* grouping loop: it finds no group, names and removes no file and no
\* directory, and the tree stays as it was given; a run that has removed
\* anything has a hash for every file it walked.
C38_NoDeletionUnlessEveryHash ==
    \A dry_run \in DOMAIN runs :
        LET r == runs[dry_run]
        IN  /\ HashFailed(r) =>
                  /\ r.pc \in {"Organize", "Failed"}
                  /\ r.duplicates = <<>>
                  /\ r.removed = <<>>
                  /\ r.num_removed = 0
                  /\ r.files = tree0.files
                  /\ r.dirs = tree0.dirs
            /\ (r.files # tree0.files \/ r.dirs # tree0.dirs) =>
                  /\ r.pc \in {"Remove", "Directories", "Done"}
                  /\ Len(r.all_hashes) = Len(r.all_filenames)
                  /\ \A k \in DOMAIN r.all_hashes : r.all_hashes[k] # NoResult

\* the real run has ended at the assertion: one hash task failed, and two
\* other files, which hold the same bytes, are both still there
C38_Witness ==
    /\ runs[FALSE].pc = "Failed"
    /\ HashFailed(runs[FALSE])
    /\ \E k, l \in DOMAIN runs[FALSE].all_hashes :
          /\ k # l
          /\ runs[FALSE].all_hashes[k] = runs[FALSE].all_hashes[l]
          /\ runs[FALSE].all_hashes[k] # NoResult
          /\ runs[FALSE].all_filenames[k].name = runs[FALSE].all_filenames[l].name
          /\ runs[FALSE].files[runs[FALSE].all_filenames[k]] # None
          /\ runs[FALSE].files[runs[FALSE].all_filenames[l]] # None

\* C40: RemoveDuplicates never removes the directory it was given; a run
\* that found no duplicate group returns without visiting, counting or
\* removing a directory; and every directory above a file that is left is
\* left as well.
C40_RootAndAncestorsAreKept ==
    Kind = "RemoveDuplicates" =>
        \A dry_run \in DOMAIN runs :
            LET r == runs[dry_run]
            IN  /\ 0 \in r.dirs
                /\ r.duplicates = <<>> =>
                      /\ r.dirs = tree0.dirs
                      /\ r.directories = <<>>
                      /\ r.num_removed = 0
                      /\ r.pc \notin {"Remove", "Directories"}
                /\ \A p \in DedupPaths :
                      r.files[p] # None => \A d \in 0..p.dir : d \in r.dirs
                /\ r.pc = "Done" /\ r.duplicates # <<>> =>
                      ~IsEmptyDir(0, r.files, r.dirs)

\* the real run found a group whose first member lies in directory 1: it
\* has removed the duplicate of directory 2 and that directory, and has
\* kept directory 1 and the root, which holds no file itself
C40_Witness ==
    /\ Kind = "RemoveDuplicates"
    /\ runs[FALSE].pc = "Done"
    /\ runs[FALSE].duplicates # <<>>
    /\ tree0.dirs = {0, 1, 2}
    /\ runs[FALSE].dirs = {0, 1}
    /\ \A p \in DedupPaths : p.dir = 0 => tree0.files[p] = None
    /\ \E p \in DedupPaths : p.dir = 1 /\ runs[FALSE].files[p] # None

-----------------------------------------------------------------------------
(* CallbackServer (Impl/CallbackServer.py:77-186) as _Token.Create and     *)
(* other callers use it: the constructor argument, the serving thread, the *)
(* requests it is sent, and the Wait call.  Values of query parameters are *)
(* told apart by a number; None is Python's None.                          *)

MaxRequests == 2        \* requests sent to the listener in one behaviour

\* callback_result_name_or_names: a str, None, or a list of names
NameArgs ==
    {[type |-> "str", names |-> <<"code">>],
     [type |-> "None", names |-> <<>>],
     [type |-> "list", names |-> <<>>],
     [type |-> "list", names |-> <<"code">>],
     [type |-> "list", names |-> <<"code", "state">>]}

\* the queries of the requests: the pairs parse_qs keeps
Queries == SUBSET {<<"code", 1>>, <<"state", 2>>}

\* `result_name in query`
InQuery(query, result_name) == \E pair \in query : pair[1] = result_name

\* query[result_name][0]
FirstValue(query, result_name) ==
    (CHOOSE pair \in query : pair[1] = result_name)[2]

\* CallbackServer.__init__ (CallbackServer.py:87-163): the names, the
\* empty results, the event, and the thread, which has been started
NewServer(arg) ==
    [arg |-> arg.type, callback_result_names |-> arg.names, results |-> {},
     quit_event |-> FALSE, thread |-> "check", served |-> <<>>,
     content |-> "none", wait |-> "none", returned |-> NoValue]

\* the dictionary after the loop of do_GET (CallbackServer.py:114-119):
\* every expected name is set, to the value of the query or to None
ResultsOf(names, query) ==
    {<<names[k], IF InQuery(query, names[k])
                 THEN FirstValue(query, names[k]) ELSE None>> :
        k \in DOMAIN names}

\* is_successful: every expected name is in the query
IsSuccessful(names, query) ==
    \A k \in DOMAIN names : InQuery(query, names[k])

callbackRest == <<tokenVars, dm_result, phases, force_oauth, file0, listener,
                  events, exchanged, writes, created, listVars, planVars,
                  fetchVars, givenVars, execVars, commitVars, dedupVars,
                  callers>>

\* `while not self._quit_event.is_set():` (CallbackServer.py:157)
Thread_Check ==
    /\ server.thread = "check"
    /\ server' = [server EXCEPT !.thread =
                     IF server.quit_event THEN "exited" ELSE "handling"]
    /\ UNCHANGED <<pc, failure, auth_token, callbackRest>>

\* self._httpd.handle_request() returns after self._httpd.timeout = 1
\* second without a request (CallbackServer.py:153, 158)
Thread_HandleTimeout ==
    /\ server.thread = "handling"
    /\ server' = [server EXCEPT !.thread = "check"]
    /\ UNCHANGED <<pc, failure, auth_token, callbackRest>>

\* a GET request arrives and do_GET serves it (CallbackServer.py:107-137)
do_GET(query) ==
    /\ server.thread = "handling"
    /\ Len(server.served) < MaxRequests
    /\ server' = [server EXCEPT
                     !.results = ResultsOf(server.callback_result_names, query),
                     !.content =
                         IF IsSuccessful(server.callback_result_names, query)
                         THEN "success" ELSE "failure",
                     !.served = Append(@, query),
                     !.quit_event = TRUE,
                     !.thread = "check"]
    /\ UNCHANGED <<pc, failure, auth_token, callbackRest>>

\* the same, but the client has gone and writing the response raises
\* (CallbackServer.py:127-135): the results are set, the event is not
do_GET_Raises(query) ==
    /\ server.thread = "handling"
    /\ Len(server.served) < MaxRequests
    /\ server' = [server EXCEPT
                     !.results = ResultsOf(server.callback_result_names, query),
                     !.served = Append(@, query),
                     !.thread = "check"]
    /\ UNCHANGED <<pc, failure, auth_token, callbackRest>>

\* `if len(self._results) == 1: return next(iter(self._results.values()))`,
\* `return self._results` (CallbackServer.py:183-186)
WaitValue(results) ==
    IF Cardinality(results) = 1
    THEN LET v == (CHOOSE pair \in results : TRUE)[2]
         IN  [shape |-> IF v = None THEN "None" ELSE "str",
              value |-> v, dict |-> {}]
    ELSE [shape |-> "dict", value |-> None, dict |-> results]

\* Wait finds the event set (CallbackServer.py:179-186); _Token.Create,
\* which gave the name "code", goes on with what it was returned
\* (BackupOneDrive.py:452)
Wait_Return ==
    /\ pc = "Wait"
    /\ server.quit_event
    /\ server' = [server EXCEPT !.wait = "returned",
                                !.returned = WaitValue(server.results)]
    /\ IF server.arg = "str"
       THEN /\ auth_token' = WaitValue(server.results).value
            /\ pc' = "Exchange"
       ELSE /\ pc' = "Returned"
            /\ UNCHANGED auth_token
    /\ UNCHANGED <<failure, callbackRest>>

\* a wait that gives up without telling the thread
Wait_TimeoutNotSet ==
    /\ pc = "Wait"
    /\ ~server.quit_event
    /\ server' = [server EXCEPT !.wait = "raised"]
    /\ Raise("timeout")
    /\ UNCHANGED <<auth_token, callbackRest>>

\* the event was not set within timeout_seconds: it is set now and
\* Exception("timeout") is raised (CallbackServer.py:179-181)
Wait_Timeout ==
    /\ pc = "Wait"
    /\ ~server.quit_event
    /\ server' = [server EXCEPT !.wait = "raised", !.quit_event = TRUE]
    /\ Raise("timeout")
    /\ UNCHANGED <<auth_token, callbackRest>>

\* _Token.Create has constructed the server and is about to open the
\* browser (BackupOneDrive.py:438-449); no token is persisted
InitCallback ==
    /\ refresh_token = None
    /\ data_file = NoFile
    /\ IdleToken
    /\ pc = "Browser"
    /\ IdleRun
    /\ force_oauth = FALSE
    /\ file0 = data_file
    /\ listener = "none"
    /\ events = <<>>
    /\ auth_token = None
    /\ exchanged = NoExchange
    /\ writes = 0
    /\ created = FALSE
    /\ IdleListing
    /\ IdlePlan
    /\ IdleFetch
    /\ IdleGiven
    /\ IdleExec
    /\ IdleCommit
    /\ IdleDedup
    /\ server \in {NewServer(arg) : arg \in NameArgs}
    /\ callers = <<>>

NextCallback ==
    \/ Create_Browser
    \/ Thread_Check
    \/ Thread_HandleTimeout
    \/ \E query \in Queries : do_GET(query)
    \/ \E query \in Queries : do_GET_Raises(query)
    \/ Wait_Return
    \/ Wait_Timeout
    \/ \E resp \in ExchangeOutcomes : Create_Exchange(resp)
    \/ Create_Persist

SpecCallback == InitCallback /\ [][NextCallback]_vars

\* the thread runs: it is scheduled again and again, and handle_request
\* returns after a second when no request comes
SpecCallbackFair ==
    /\ SpecCallback
    /\ WF_vars(Thread_Check)
    /\ WF_vars(Thread_HandleTimeout)

-----------------------------------------------------------------------------
(* Properties of the CallbackServer, under SpecCallback                    *)

\* a request that carried every expected parameter has been served
MatchingServed ==
    \E k \in DOMAIN server.served :
        IsSuccessful(server.callback_result_names, server.served[k])

\* C32: Wait returns a result only after a request that carried every
\* expected parameter was served, and only such a request sets the event
\* that ends the wait and stops the thread (the statement of the claim; it
\* fails for a request without the parameter, which do_GET answers with the
\* failure page and then sets the event all the same).
C32_OnlyAMatchingRequestEndsTheWait ==
    /\ server.wait = "returned" => MatchingServed
    /\ (server.quit_event /\ server.wait # "raised") => MatchingServed

\* Wait has raised Exception("timeout")
TimedOut == server.wait = "raised"

\* C33: when Wait times out it raises and returns no value, the event is
\* set, and _Token.Create ends there: no code was returned, fetch_token was
\* not called, and nothing was written; and from then on the thread comes
\* to its end and stays there.
C33_TimeoutRaisesAndStopsTheListener ==
    /\ [](TimedOut =>
            /\ pc = "Failed"
            /\ failure = "timeout"
            /\ server.returned = NoValue
            /\ server.quit_event
            /\ auth_token = None
            /\ exchanged = NoExchange
            /\ writes = 0
            /\ data_file = file0
            /\ ~created)
    /\ (TimedOut ~> [](server.thread = "exited"))

\* Wait has timed out without a request having come, and the thread, which
\* was handling requests at that moment, has ended
C33_Witness ==
    /\ TimedOut
    /\ server.arg = "str"
    /\ server.served = <<>>
    /\ server.thread = "exited"
    /\ "browser" \in Range(events)

\* C34: the value Wait returns is a str when the constructor was given a
\* str, None when it was given None, and a dict when it was given a list
\* (the statement of the claim; it fails for None, for a list of one name,
\* and for a str whose parameter the request did not carry).
C34_ReturnShapeFollowsTheArgument ==
    server.wait = "returned" =>
        server.returned.shape =
            CASE server.arg = "str" -> "str"
              [] server.arg = "None" -> "None"
              [] OTHER -> "dict"

-----------------------------------------------------------------------------
(* _Token.GetAccessToken (BackupOneDrive.py:490-516) called by the download *)
(* workers: Prepare calls get_headers_func() inside its worker (line 702),  *)
(* _ProcessFiles does not bound the workers (lines 750-755), and the method *)
(* takes no lock, so its statements interleave.  The main thread made the  *)
(* first call before the workers were started (line 194).  The server      *)
(* numbers the access tokens it issues.                                    *)

MaxWorkers == 2         \* download workers that call GetAccessToken

\* what the token endpoint declares in this part: a lifetime below the
\* 5-second floor or the longest one, with or without a new refresh token
RaceResponses ==
    {r \in Responses : r.expires_in \in {0, MaxExpiresIn} /\ r.access_token = 1}

NoRaceResponse == [expires_in |-> None]

\* a worker that is about to call GetAccessToken
NewCaller == [pc |-> "call", saw |-> None, asked |-> FALSE,
              response |-> NoRaceResponse, token |-> None, deadline |-> None,
              result |-> None, at |-> None]

\* the main thread, which was returned token 1 at instant 0
MainCaller(expires) ==
    [NewCaller EXCEPT !.pc = "done", !.asked = TRUE, !.token = 1,
                      !.deadline = expires, !.result = 1, !.at = 0]

raceRest == <<data_file, otherThanToken, givenVars, execVars, commitVars,
              dedupVars, server>>

\* `if self._access_expires is None or now >= self._access_expires:`
\* (BackupOneDrive.py:491)
Race_Check(w) ==
    /\ callers[w].pc = "call"
    /\ calls' = calls + 1
    /\ callers' = [callers EXCEPT
                      ![w].pc = IF NeedsRefresh THEN "request" ELSE "return",
                      ![w].saw = IF NeedsRefresh THEN access_expires ELSE None]
    /\ UNCHANGED <<now, refresh_token, access_token, access_expires, requests,
                   sent, acquired, returned, raceRest>>

\* response = self._oauth.refresh_token(..., refresh_token=self.refresh_token,
\* ...) (BackupOneDrive.py:492-498): the request is sent and answered
Race_Request(w, resp) ==
    /\ callers[w].pc = "request"
    /\ requests' = requests + 1
    /\ sent' = refresh_token
    /\ callers' = [callers EXCEPT ![w].pc = "store",
                                  ![w].asked = TRUE,
                                  ![w].response = resp,
                                  ![w].token = requests' ]
    /\ UNCHANGED <<now, refresh_token, access_token, access_expires, calls,
                   acquired, returned, raceRest>>

\* the request is sent and self._oauth.refresh_token raises
Race_RequestRaises(w) ==
    /\ callers[w].pc = "request"
    /\ requests' = requests + 1
    /\ sent' = refresh_token
    /\ callers' = [callers EXCEPT ![w].pc = "raised", ![w].asked = TRUE]
    /\ UNCHANGED <<now, refresh_token, access_token, access_expires, calls,
                   acquired, returned, raceRest>>

\* BackupOneDrive.py:500-512: the refresh token of the response, the
\* deadline, and self._access_token = access_token
Race_StoreToken(w) ==
    /\ callers[w].pc = "store"
    /\ refresh_token' = NextRefreshToken(callers[w].response)
    /\ access_token' = callers[w].token
    /\ callers' = [callers EXCEPT
                      ![w].pc = "store_expires",
                      ![w].deadline =
                          now + ExpiresIn(callers[w].response.expires_in)]
    /\ UNCHANGED <<now, access_expires, calls, requests, sent, acquired,
                   returned, raceRest>>

\* self._access_expires = expires_in (BackupOneDrive.py:513)
Race_StoreExpires(w) ==
    /\ callers[w].pc = "store_expires"
    /\ access_expires' = callers[w].deadline
    /\ acquired' = [at |-> callers[w].deadline
                              - ExpiresIn(callers[w].response.expires_in),
                    expires_in |-> callers[w].response.expires_in,
                    carried |-> Carried(callers[w].response)]
    /\ callers' = [callers EXCEPT ![w].pc = "return"]
    /\ UNCHANGED <<now, refresh_token, access_token, calls, requests, sent,
                   returned, raceRest>>

\* assert self._access_token is not None; return self._access_token
\* (BackupOneDrive.py:515-516)
Race_Return(w) ==
    /\ callers[w].pc = "return"
    /\ callers' = [callers EXCEPT ![w].pc = "done",
                                  ![w].result = access_token,
                                  ![w].at = now]
    /\ returned' = [token |-> access_token, at |-> now]
    /\ UNCHANGED <<now, refresh_token, access_token, access_expires, calls,
                   requests, sent, acquired, raceRest>>

\* the clock, read in whole seconds, moves between the calls: a call is
\* taken to be over within the second in which it began, so that what is
\* observed of the calls is the interleaving of their statements alone
Race_Tick ==
    /\ \A w \in DOMAIN callers : callers[w].pc \in {"call", "done", "raised"}
    /\ Tick

\* the token the main thread acquired is stored; the workers start
InitRace ==
    /\ refresh_token = 1
    /\ data_file = FileHolding(refresh_token)
    /\ now = 0
    /\ access_token = 1
    /\ \E e \in {0, MaxExpiresIn} :
          /\ access_expires = ExpiresIn(e)
          /\ acquired = [at |-> 0, expires_in |-> e, carried |-> None]
    /\ calls = 1
    /\ requests = 1
    /\ sent = refresh_token
    /\ returned = [token |-> 1, at |-> 0]
    /\ IdleBackup
    /\ IdleGiven
    /\ IdleExec
    /\ IdleCommit
    /\ IdleDedup
    /\ server = NoServer
    /\ callers = <<MainCaller(access_expires)>>
                 \o [w \in 1..MaxWorkers |-> NewCaller]

NextRace ==
    \/ \E w \in DOMAIN callers : Race_Check(w)
    \/ \E w \in DOMAIN callers, resp \in RaceResponses : Race_Request(w, resp)
    \/ \E w \in DOMAIN callers : Race_RequestRaises(w)
    \/ \E w \in DOMAIN callers : Race_StoreToken(w)
    \/ \E w \in DOMAIN callers : Race_StoreExpires(w)
    \/ \E w \in DOMAIN callers : Race_Return(w)
    \/ Race_Tick

SpecRace == InitRace /\ [][NextRace]_vars

-----------------------------------------------------------------------------
(* Properties of the concurrent calls, under SpecRace                      *)

\* the deadline that was computed for access token t
DeadlineOf(t) ==
    (CHOOSE c \in Range(callers) : c.token = t /\ c.deadline # None).deadline

\* C35: however the calls interleave, no two callers send a refresh
\* request for the same expiry, and the token a caller is returned has not
\* reached its deadline at the moment it is returned (the statement of the
\* claim; it fails when two workers test the expiry before either has
\* stored a new one).
C35_OneRefreshPerExpiry ==
    /\ \A v, w \in DOMAIN callers :
          (v # w /\ callers[v].asked /\ callers[w].asked) =>
              callers[v].saw # callers[w].saw
    /\ \A w \in DOMAIN callers :
          callers[w].pc = "done" =>
              callers[w].at < DeadlineOf(callers[w].result)

\* C37: no two decisions of a plan have the same destination, so no two
\* tasks of a run commit through the same '.tmp' sibling to the same
\* destination (the statement of the claim; it fails for two remote files
\* of one name and one creation date in two remote folders).
C37_NoTwoDecisionsShareADestination ==
    \A i, j \in DOMAIN files_to_process :
        i # j => files_to_process[i].dest # files_to_process[j].dest

\* a step of task i of the running command
StepOf(i) ==
    /\ i \in DOMAIN fetch
    /\ i \in DOMAIN fetch'
    /\ fetch'[i] # fetch[i]

\* C39: a step that a fetch task takes while it prepares or streams the
\* download, the step that fails included, changes nothing in the
\* destination tree: the destination and its '.tmp' sibling stay as they
\* were; a task that failed there has left at most its own temporary file,
\* written in part.
C39_FailedDownloadLeavesDestinationAlone ==
    [][\A i \in DOMAIN fetch :
          (StepOf(i) /\ fetch[i].pc \in {"prepare", "download"}) =>
              /\ disk' = disk
              /\ fetch'[i].pc = "failed" =>
                    fetch'[i].temp \in {"none", "partial"}]_vars

\* a task failed while it streamed the download, and left its temporary
\* file, while the '.tmp' sibling that a killed run had left is in place
C39_Witness ==
    \E i \in DOMAIN fetch :
        /\ Alone(i)
        /\ fetch[i].pc = "failed"
        /\ fetch[i].raised = "HTTPError"
        /\ fetch[i].temp = "partial"
        /\ Exists(DestTemp(files_to_process[i].dest))
        /\ ~Exists(PathOf(files_to_process[i].dest))

====
